---- MODULE Spec2Model ----
(***************************************************************************)
(* Client-side router, browser-history synchronisation and session client  *)
(* of the Beisman Maps single-page application (static/js/app.js, class    *)
(* BeismanMapApp).                                                         *)
(*                                                                         *)
(* Strings that the code inspects character by character (map ids, entity  *)
(* names, URL path segments) are sequences of one-character strings.  A    *)
(* URL path is a record [base, tail]: the path string is base followed by  *)
(* the characters of tail, and tail is empty or begins with "/".           *)
(* Every event handler is one action; the synchronous call chain of a      *)
(* handler (navigateTo -> updateBrowserHistory -> updatePageTitle ->       *)
(* loadCurrentPage -> renderer -> possibly navigateTo again) is computed   *)
(* by operators over a record of the application state.  A request in      *)
(* flight is an element of fetches or formRequests, or a phase of          *)
(* insertSub; the continuation of its handler is one action.               *)
(***************************************************************************)
EXTENDS Integers, Sequences, FiniteSets, TLC

VARIABLES
    started,             \* init() has passed its awaited checkSession()
    currentUser,         \* this.currentUser
    currentPage,         \* this.currentPage
    pageHistory,         \* this.pageHistory
    selectedMapId,       \* this.selectedMapId
    selectedEntityInfo,  \* this.selectedEntityInfo
    bhist,               \* browser session history: entries [state, path]
    bidx,                \* index of the current browser-history entry
    title,               \* textContent of #page-title
    content,             \* what #content-area shows
    adminStatus,         \* the .admin-session-status banner is present
    loginModal,          \* the login modal is open
    loginError,          \* text of #login-error ("" when hidden)
    trace,               \* renderers run by the last handler, in call order
    sessionPending,      \* timer-driven checkSession() requests in flight
    loginPending,        \* handleLogin() requests in flight
    logoutPending,       \* logout() requests in flight
    last,                \* the last handler that ran: [op, page, flag, len]
    fetches,             \* GET requests of renderers, searches and filters in flight
    detailsContent,      \* what #map-details-content shows
    editForm,            \* the map whose data #update-map-form holds
    editEntities,        \* the rows of #current-entities-list in the edit form
    results,             \* what .results-container shows ("" when absent)
    resultsFrom,         \* the query whose answer .results-container shows
    paginationButtons,   \* the .pagination-button elements, in document order
    searchInput,         \* value of #entities-search
    tempEntitiesList,    \* this.tempEntitiesList
    insertSub,           \* the running handleInsertMapWithEntities() call
    formRequests,        \* PUT / POST / DELETE requests of the edit form in flight
    alertText,           \* text of the alert() the last handler raised ("" if none)
    answer,              \* the list answer the last handler resumed with
    report               \* what the last handler reported of a submission

routerVars == <<started, currentUser, currentPage, pageHistory, selectedMapId,
                selectedEntityInfo, bhist, bidx, title, content, adminStatus,
                loginModal, loginError, trace, sessionPending, loginPending, logoutPending, last>>

\* State of the page that #content-area currently holds, and of its requests.
pageVars == <<fetches, detailsContent, editForm, editEntities, results, resultsFrom, paginationButtons, searchInput,
              tempEntitiesList, insertSub, formRequests, alertText, answer, report>>

vars == <<routerVars, pageVars>>

---------------------------------------------------------------------------
(* Bounds of the model *)

MaxHistory == 3
MaxBrowser == 3
MaxPending == 1
MaxIdLen == 2

---------------------------------------------------------------------------
(* Values *)

Null == [null |-> TRUE]          \* JavaScript null in an object-valued field
NullStr == <<"null">>            \* JavaScript null in a string-valued field
Undef == <<"undefined">>         \* JavaScript undefined in a string-valued field

Truthy(s) == s # NullStr /\ s # Undef /\ s # <<>>

IsAdmin(u) == u # Null /\ u.isAdmin

\* Characters of identifiers and names, and the characters that percent
\* encoding adds to them.
IdChars == {"4", " ", "?", "|"}

RECURSIVE StrsUpTo(_)
StrsUpTo(n) ==
    IF n = 0 THEN {<<>>}
    ELSE LET shorter == StrsUpTo(n - 1)
         IN shorter \cup {Append(s, c) : s \in {t \in shorter : Len(t) = n - 1}, c \in IdChars}

AllIds == StrsUpTo(MaxIdLen) \ {<<>>}

\* Identifiers and entities of the navigation specifications.
MapIds == {<<"4">>}
Entities == {[name |-> <<"4">>, num |-> <<"4">>]}

AdminPages == {"admin-panel", "insert-map", "update-delete"}

TitledPages == {"home", "admin-panel", "admin-login", "browse-maps", "browse-entities",
                "map-details", "entity-details", "insert-map", "update-delete"}

\* Page names passed to navigateTo: the title table and the untitled
\* 'delete-entities' that the map-details page links to.
NavPages == TitledPages \cup {"delete-entities"}

\* Pages of the navigation specification: the admin pages, the landing
\* page, one list page and the map page.
GatePages == AdminPages \cup {"home", "browse-maps", "map-details"}

P(b) == [base |-> b, tail |-> <<>>]

\* URLs a tab is opened on.
InitialPaths == {P("/"), P("/admin-panel"), P("/insert-map"), P("/update-delete")}

AdminUser == [username |-> "admin", displayName |-> "Administrator", isAdmin |-> TRUE, sessionId |-> "s1"]
PlainUser == [username |-> "clerk", displayName |-> "Clerk", isAdmin |-> FALSE, sessionId |-> "s2"]
NoUser == [username |-> "", displayName |-> "", isAdmin |-> FALSE, sessionId |-> ""]

SessionAnswer(k, a, u) ==
    [kind |-> k, is_authenticated |-> a, username |-> u.username, display_name |-> u.displayName,
     is_admin |-> u.isAdmin, session_id |-> u.sessionId]

\* Answers of GET /api/auth/session: transport outcome and parsed body.
SessionResponses ==
    {SessionAnswer("ok", TRUE, u) : u \in {AdminUser, PlainUser}}
    \cup {SessionAnswer("ok", FALSE, NoUser), SessionAnswer("http_error", TRUE, AdminUser),
          SessionAnswer("network_error", FALSE, NoUser)}

LoginAnswer(k, s, m, u) ==
    [kind |-> k, success |-> s, message |-> m,
     user_info |-> [username |-> u.username, display_name |-> u.displayName, is_admin |-> u.isAdmin],
     session_id |-> u.sessionId]

\* Answers of POST /api/auth/login.
LoginResponses ==
    {LoginAnswer("ok", TRUE, "", u) : u \in {AdminUser, PlainUser}}
    \cup {LoginAnswer("ok", FALSE, m, NoUser) : m \in {"", "Invalid credentials"}}
    \cup {LoginAnswer("network_error", TRUE, "", AdminUser)}

\* Answers of POST /api/auth/logout.
LogoutResponses ==
    {[kind |-> "ok", success |-> TRUE], [kind |-> "ok", success |-> FALSE],
     [kind |-> "network_error", success |-> TRUE]}

---------------------------------------------------------------------------
(* Encoding of path segments *)

\* encodeURIComponent on one character.
EncodeChar(c) ==
    CASE c = " " -> <<"%", "2", "0">>
      [] c = "|" -> <<"%", "7", "C">>
      [] c = "?" -> <<"%", "3", "F">>
      [] c = "%" -> <<"%", "2", "5">>
      [] c = "/" -> <<"%", "2", "F">>
      [] OTHER -> <<c>>

RECURSIVE encodeURIComponent(_)
encodeURIComponent(s) ==
    IF s = <<>> THEN <<>> ELSE EncodeChar(Head(s)) \o encodeURIComponent(Tail(s))

DecodeHex(h1, h2) ==
    CASE h1 = "2" /\ h2 = "0" -> " "
      [] h1 = "7" /\ h2 = "C" -> "|"
      [] h1 = "3" /\ h2 = "F" -> "?"
      [] h1 = "2" /\ h2 = "5" -> "%"
      [] h1 = "2" /\ h2 = "F" -> "/"
      [] OTHER -> "?"

Escapes == {<<"2", "0">>, <<"7", "C">>, <<"3", "F">>, <<"2", "5">>, <<"2", "F">>}

\* decodeURIComponent throws URIError on a "%" that starts no escape.
RECURSIVE URIError(_)
URIError(s) ==
    IF s = <<>> THEN FALSE
    ELSE IF Head(s) = "%"
         THEN IF Len(s) >= 3 /\ <<s[2], s[3]>> \in Escapes
              THEN URIError(SubSeq(s, 4, Len(s)))
              ELSE TRUE
         ELSE URIError(Tail(s))

RECURSIVE decodeURIComponent(_)
decodeURIComponent(s) ==
    IF s = <<>> THEN <<>>
    ELSE IF Head(s) = "%" /\ Len(s) >= 3
         THEN <<DecodeHex(s[2], s[3])>> \o decodeURIComponent(SubSeq(s, 4, Len(s)))
         ELSE <<Head(s)>> \o decodeURIComponent(Tail(s))

\* The URL parser behind history.pushState: the path ends at the first "?"
\* and a space is percent-encoded; location.pathname reads the result.
RECURSIVE NormalizeTail(_)
NormalizeTail(t) ==
    IF t = <<>> THEN <<>>
    ELSE IF Head(t) = "?" THEN <<>>
    ELSE IF Head(t) = " " THEN <<"%", "2", "0">> \o NormalizeTail(Tail(t))
    ELSE <<Head(t)>> \o NormalizeTail(Tail(t))

NormalizePath(p) == [base |-> p.base, tail |-> NormalizeTail(p.tail)]

\* String.prototype.split('|'): the pieces between the bars.
RECURSIVE SplitBar(_)
SplitBar(s) ==
    IF \A i \in 1..Len(s) : s[i] # "|" THEN <<s>>
    ELSE LET k == CHOOSE i \in 1..Len(s) : s[i] = "|" /\ \A j \in 1..(i - 1) : s[j] # "|"
         IN <<SubSeq(s, 1, k - 1)>> \o SplitBar(SubSeq(s, k + 1, Len(s)))

---------------------------------------------------------------------------
(* The application object and the synchronous call chain of its handlers *)

\* The state the handlers read and write, as one record.
App ==
    [currentUser |-> currentUser, currentPage |-> currentPage, pageHistory |-> pageHistory,
     selectedMapId |-> selectedMapId, selectedEntityInfo |-> selectedEntityInfo,
     bhist |-> bhist, bidx |-> bidx, title |-> title, content |-> content,
     adminStatus |-> adminStatus, trace |-> <<>>]

\* window.location.pathname
Pathname(S) == S.bhist[S.bidx].path

Ran(S, fn, html) == [S EXCEPT !.trace = Append(@, [fn |-> fn, html |-> html])]

Render(S, fn, html) == [Ran(S, fn, html) EXCEPT !.content = html]

PageTitles(page) ==
    CASE page = "home" -> "Beisman Map Menu"
      [] page = "admin-panel" -> "Beisman Map Menu - Admin Panel"
      [] page = "admin-login" -> "Beisman Map Menu - Admin Login"
      [] page = "browse-maps" -> "Browse Beisman Maps"
      [] page = "browse-entities" -> "Browse Beisman Entities"
      [] page = "map-details" -> "Map Information"
      [] page = "entity-details" -> "Entity Information"
      [] page = "insert-map" -> "Insert New Map"
      [] page = "update-delete" -> "Update/Delete Map"
      [] OTHER -> "Beisman Map Menu"

\* updatePageTitle() that leaves the heading as it was.
updatePageTitle_stale(S) == S

updatePageTitle(S) == [S EXCEPT !.title = PageTitles(S.currentPage)]

urlPaths(page, mapId, entityInfo) ==
    CASE page = "home" -> P("/")
      [] page = "admin-panel" -> P("/admin-panel")
      [] page = "browse-maps" -> P("/browse-maps")
      [] page = "browse-entities" -> P("/browse-entities")
      [] page = "insert-map" -> P("/insert-map")
      [] page = "update-delete" -> P("/update-delete")
      [] page = "map-details" ->
            IF Truthy(mapId) THEN [base |-> "/map-details", tail |-> <<"/">> \o mapId]
            ELSE P("/map-details")
      [] page = "entity-details" ->
            IF Truthy(entityInfo)
            THEN [base |-> "/entity-details", tail |-> <<"/">> \o encodeURIComponent(entityInfo)]
            ELSE P("/entity-details")
      [] OTHER -> P("/")

\* window.history.pushState(state, '', url): entries after the current one
\* are dropped and the new entry becomes current; a browser keeps a capped
\* number of entries and evicts the oldest.
pushState(S, state, url) ==
    LET entries == Append(SubSeq(S.bhist, 1, S.bidx), [state |-> state, path |-> NormalizePath(url)])
        kept == IF Len(entries) > MaxBrowser THEN Tail(entries) ELSE entries
    IN [S EXCEPT !.bhist = kept, !.bidx = Len(kept)]

updateBrowserHistory(S, page, mapIdArg, entityInfoArg) ==
    LET mapId == IF mapIdArg = Undef THEN NullStr ELSE mapIdArg
        entityInfo == IF entityInfoArg = Undef THEN NullStr ELSE entityInfoArg
        newPath == urlPaths(page, mapId, entityInfo)
        state == [page |-> page, selectedMapId |-> mapId, selectedEntityInfo |-> entityInfo]
    IN IF Pathname(S) # newPath THEN pushState(S, state, newPath) ELSE S

RECURSIVE navigateTo(_, _, _)

loadHomePage(S) == Render(S, "loadHomePage", "home")

loadAdminPanel(S) ==
    IF ~IsAdmin(S.currentUser)
    THEN navigateTo(Ran(S, "loadAdminPanel", ""), "home", TRUE)
    ELSE [Render(S, "loadAdminPanel", "admin-panel") EXCEPT !.adminStatus = TRUE]

\* The list pages write into the container only when their fetch resolves.
loadBrowseMaps(S) == Ran(S, "loadBrowseMaps", "")

loadBrowseEntities(S) == Ran(S, "loadBrowseEntities", "")

loadMapDetails(S) == Render(S, "loadMapDetails", "map-details")

loadEntityDetails(S) ==
    IF ~Truthy(S.selectedEntityInfo)
    THEN Render(S, "loadEntityDetails", "entity-details-none")
    ELSE Render(S, "loadEntityDetails", "entity-details")

\* loadInsertMap() without its admin check.
loadInsertMap_noGate(S) == Render(S, "loadInsertMap", "insert-map")

loadInsertMap(S) ==
    IF ~IsAdmin(S.currentUser)
    THEN navigateTo(Ran(S, "loadInsertMap", ""), "home", TRUE)
    ELSE Render(S, "loadInsertMap", "insert-map")

loadUpdateDelete(S) ==
    IF ~IsAdmin(S.currentUser)
    THEN navigateTo(Ran(S, "loadUpdateDelete", ""), "home", TRUE)
    ELSE IF ~Truthy(S.selectedMapId)
         THEN Render(S, "loadUpdateDelete", "update-delete-guidance")
         ELSE Render(S, "loadUpdateDelete", "update-delete")

loadCurrentPage(S) ==
    LET L == [S EXCEPT !.content = "loading"]
    IN CASE S.currentPage = "home" -> loadHomePage(L)
         [] S.currentPage = "admin-panel" -> loadAdminPanel(L)
         [] S.currentPage = "browse-maps" -> loadBrowseMaps(L)
         [] S.currentPage = "browse-entities" -> loadBrowseEntities(L)
         [] S.currentPage = "map-details" -> loadMapDetails(L)
         [] S.currentPage = "entity-details" -> loadEntityDetails(L)
         [] S.currentPage = "insert-map" -> loadInsertMap(L)
         [] S.currentPage = "update-delete" -> loadUpdateDelete(L)
         [] OTHER -> loadHomePage(L)

navigateTo(S, page, addToHistory) ==
    LET S1 == IF addToHistory /\ page # S.currentPage
              THEN [S EXCEPT !.pageHistory = Append(@, S.currentPage)]
              ELSE S
        S2 == [S1 EXCEPT !.currentPage = page]
        S3 == updateBrowserHistory(S2, page, S2.selectedMapId, S2.selectedEntityInfo)
    IN loadCurrentPage(updatePageTitle(S3))

\* goBack() whose fallback navigates with the default addToHistory.
goBack_pushes(S) ==
    IF Len(S.pageHistory) > 0
    THEN navigateTo([S EXCEPT !.pageHistory = SubSeq(@, 1, Len(@) - 1)],
                    S.pageHistory[Len(S.pageHistory)], FALSE)
    ELSE navigateTo(S, "home", TRUE)

goBack(S) ==
    IF Len(S.pageHistory) > 0
    THEN LET previousPage == S.pageHistory[Len(S.pageHistory)]
             S1 == [S EXCEPT !.pageHistory = SubSeq(@, 1, Len(@) - 1)]
         IN navigateTo(S1, previousPage, FALSE)
    ELSE navigateTo(S, "home", FALSE)

showMapDetails(S, mapId) == navigateTo([S EXCEPT !.selectedMapId = mapId], "map-details", TRUE)

showEntityDetails(S, entityName, beismanNumber) ==
    navigateTo([S EXCEPT !.selectedEntityInfo = entityName \o <<"|">> \o beismanNumber],
               "entity-details", TRUE)

\* The [entityName, beismanNumber] that loadEntityDetails destructures from
\* selectedEntityInfo.split('|'); a missing second piece is undefined.
ParsedEntityInfo(info) ==
    LET parts == SplitBar(info)
    IN [entityName |-> parts[1],
        beismanNumber |-> IF Len(parts) >= 2 THEN parts[2] ELSE Undef]

\* path.startsWith(prefix + '/')
StartsWithDir(path, prefix) == path.base = prefix /\ path.tail # <<>> /\ Head(path.tail) = "/"

\* path.split(prefix + '/')[1]; no character of a segment can start a second
\* occurrence of the separator.
AfterDir(path) == Tail(path.tail)

loadInitialRoute(S) ==
    LET path == Pathname(S)
        S1 == IF path = P("/") \/ path = P("") THEN [S EXCEPT !.currentPage = "home"]
              ELSE IF path = P("/admin-panel") THEN [S EXCEPT !.currentPage = "admin-panel"]
              ELSE IF path = P("/browse-maps") THEN [S EXCEPT !.currentPage = "browse-maps"]
              ELSE IF path = P("/browse-entities") THEN [S EXCEPT !.currentPage = "browse-entities"]
              ELSE IF path = P("/insert-map") THEN [S EXCEPT !.currentPage = "insert-map"]
              ELSE IF path = P("/update-delete") THEN [S EXCEPT !.currentPage = "update-delete"]
              ELSE IF StartsWithDir(path, "/map-details")
                   THEN IF AfterDir(path) # <<>>
                        THEN [S EXCEPT !.currentPage = "map-details", !.selectedMapId = AfterDir(path)]
                        ELSE [S EXCEPT !.currentPage = "map-details"]
              ELSE IF StartsWithDir(path, "/entity-details")
                   THEN IF AfterDir(path) # <<>>
                        THEN [S EXCEPT !.currentPage = "entity-details",
                                       !.selectedEntityInfo = decodeURIComponent(AfterDir(path))]
                        ELSE [S EXCEPT !.currentPage = "entity-details"]
              ELSE [S EXCEPT !.currentPage = "home"]
    IN IF StartsWithDir(path, "/entity-details") /\ URIError(AfterDir(path))
       THEN [S EXCEPT !.currentPage = "entity-details"]
       ELSE loadCurrentPage(updatePageTitle(S1))

\* A popstate listener that restores the page through navigateTo().
popstate_navigates(S, j) ==
    LET B == [S EXCEPT !.bidx = j]
        state == S.bhist[j].state
    IN IF state # Null
       THEN navigateTo([B EXCEPT !.selectedMapId = state.selectedMapId,
                                 !.selectedEntityInfo = state.selectedEntityInfo],
                       state.page, TRUE)
       ELSE loadInitialRoute(B)

\* The popstate listener, after the browser has moved to entry j.
popstate(S, j) ==
    LET B == [S EXCEPT !.bidx = j]
        state == S.bhist[j].state
    IN IF state # Null
       THEN loadCurrentPage(updatePageTitle(
                [B EXCEPT !.currentPage = state.page,
                          !.selectedMapId = state.selectedMapId,
                          !.selectedEntityInfo = state.selectedEntityInfo]))
       ELSE loadInitialRoute(B)

---------------------------------------------------------------------------
(* Session client *)

\* checkSession() that reads the body without looking at response.ok.
checkSession_ignoresStatus(r) ==
    IF r.kind # "network_error" /\ r.is_authenticated
    THEN [username |-> r.username, displayName |-> r.display_name,
          isAdmin |-> r.is_admin, sessionId |-> r.session_id]
    ELSE Null

\* What checkSession() assigns to currentUser for an answer r.
checkSession(r) ==
    IF r.kind = "ok"
    THEN IF r.is_authenticated
         THEN [username |-> r.username, displayName |-> r.display_name,
               isAdmin |-> r.is_admin, sessionId |-> r.session_id]
         ELSE Null
    ELSE Null

\* handleLogin() that treats every logged-in user as an administrator.
LoginUser_alwaysAdmin(r) ==
    [username |-> r.user_info.username, displayName |-> r.user_info.display_name,
     isAdmin |-> TRUE, sessionId |-> r.session_id]

\* The currentUser that handleLogin() builds from a successful answer.
LoginUser(r) ==
    [username |-> r.user_info.username, displayName |-> r.user_info.display_name,
     isAdmin |-> r.user_info.is_admin, sessionId |-> r.session_id]

LoginSucceeded(r) == r.kind = "ok" /\ r.success

\* The text handleLogin() passes to showLoginError for a failed answer.
LoginErrorText(r) ==
    IF r.kind = "ok"
    THEN IF r.message # "" THEN r.message ELSE "Login failed"
    ELSE "Network error during login. Please try again."

\* logout() that does not look at result.success.
LogoutSucceeded_anyAnswer(r) == r.kind = "ok"

LogoutSucceeded(r) == r.kind = "ok" /\ r.success

---------------------------------------------------------------------------
(* The page inside #content-area: its elements and its requests *)

MaxList == 2          \* entities in one list response
MaxPages == 3         \* page numbers a list response reports
MaxFetches == 1       \* requests of the page in flight together
MaxTemp == 2          \* entries of tempEntitiesList
MaxInFlight == 2      \* requests of the map pages in flight together

NameLimit == 255      \* longest entity name addTempEntity() accepts

\* this.tempEntitiesList before loadInsertMap() assigns it (undefined).
NoList == <<Undef>>

Absent == [kind |-> "absent", data |-> <<>>]
Loading == [kind |-> "loading", data |-> <<>>]
Failed == [kind |-> "error", data |-> <<>>]
Shown(data) == [kind |-> "list", data |-> data]

NoQuery == [term |-> <<>>, letter |-> NullStr]

\* #map-details-content: not in the document, its placeholder, the failure
\* notice, or the data of a map with #entities-list, which holds the
\* loading notice and then the rows it was given or the failure notice.
EntitiesLoading == [kind |-> "loading", rows |-> <<>>]
NoDetails == [kind |-> "absent", map |-> NullStr, entities |-> EntitiesLoading]
DetailsLoading == [kind |-> "loading", map |-> NullStr, entities |-> EntitiesLoading]
DetailsFailed == [kind |-> "error", map |-> NullStr, entities |-> EntitiesLoading]
Details(mapId) == [kind |-> "map", map |-> mapId, entities |-> EntitiesLoading]

NoAnswer == [kind |-> "none", data |-> <<>>, current_page |-> 0, total_pages |-> 0]

NoReport == [map |-> "none", successCount |-> 0, failedEntities |-> <<>>]

\* No handleInsertMapWithEntities() call is running.  Of a running call:
\* the trace number, the list when it started, whether the loop iterates
\* this.tempEntitiesList itself (else arr), the index and name of the entity
\* whose POST is in flight, the two tallies, the requests sent and the
\* answers received.
Idle ==
    [phase |-> "idle", number |-> <<>>, queued |-> <<>>, live |-> TRUE, arr |-> <<>>, i |-> 0,
     name |-> <<>>, successCount |-> 0, failedEntities |-> <<>>, sent |-> <<>>, answers |-> <<>>,
     mapOk |-> FALSE]

Fetch(fn, mapId, term, letter) ==
    [fn |-> fn, mapId |-> mapId, term |-> term, letter |-> letter, detached |-> FALSE]

\* String.prototype.trim() over the characters of the model.
RECURSIVE TrimLeft(_)
TrimLeft(s) == IF s # <<>> /\ Head(s) = " " THEN TrimLeft(Tail(s)) ELSE s

RECURSIVE TrimRight(_)
TrimRight(s) ==
    IF s # <<>> /\ s[Len(s)] = " " THEN TrimRight(SubSeq(s, 1, Len(s) - 1)) ELSE s

Trim(s) == TrimRight(TrimLeft(s))

Upper == <<"A", "B", "C", "D", "E", "F", "G", "H", "I", "J", "K", "L", "M",
           "N", "O", "P", "Q", "R", "S", "T", "U", "V", "W", "X", "Y", "Z">>

Lower == <<"a", "b", "c", "d", "e", "f", "g", "h", "i", "j", "k", "l", "m",
           "n", "o", "p", "q", "r", "s", "t", "u", "v", "w", "x", "y", "z">>

\* The lower-case letter of every upper-case letter.
LowerOf == [c \in {Upper[k] : k \in 1..Len(Upper)} |-> Lower[CHOOSE k \in 1..Len(Upper) : Upper[k] = c]]

LowerChar(c) == IF c \in DOMAIN LowerOf THEN LowerOf[c] ELSE c

toLowerCase(s) == [k \in 1..Len(s) |-> LowerChar(s[k])]

startsWith(s, prefix) == Len(prefix) <= Len(s) /\ SubSeq(s, 1, Len(prefix)) = prefix

\* The constructor assigns none of the page's fields; the document the
\* server sends has an empty #content-area.
PageInit ==
    /\ fetches = {}
    /\ detailsContent = NoDetails
    /\ editForm = NullStr
    /\ editEntities = <<>>
    /\ results = Absent
    /\ resultsFrom = NoQuery
    /\ paginationButtons = <<>>
    /\ searchInput = <<>>
    /\ tempEntitiesList = NoList
    /\ insertSub = Idle
    /\ formRequests = {}
    /\ alertText = ""
    /\ answer = NoAnswer
    /\ report = NoReport

\* The requests that the renderers of one handler dispatch: loadBrowseMaps
\* and loadBrowseEntities their list, loadMapDetails -> loadMapDetailsData
\* the map, loadUpdateDelete -> loadMapForEditing the map to edit.
Dispatched(tr, mapId) ==
    {Fetch("loadBrowseMaps", NullStr, <<>>, NullStr) :
        k \in {j \in 1..Len(tr) : tr[j].fn = "loadBrowseMaps"}}
    \cup {Fetch("loadBrowseEntities", NullStr, <<>>, NullStr) :
        k \in {j \in 1..Len(tr) : tr[j].fn = "loadBrowseEntities"}}
    \cup {Fetch("loadMapDetailsData", mapId, <<>>, NullStr) :
        k \in {j \in 1..Len(tr) : tr[j].fn = "loadMapDetails"}}
    \cup {Fetch("loadMapForEditing", mapId, <<>>, NullStr) :
        k \in {j \in 1..Len(tr) : tr[j] = [fn |-> "loadUpdateDelete", html |-> "update-delete"]}}

\* loadInsertMap() passed its admin check and rendered the form.
InsertRendered(tr) ==
    \E k \in 1..Len(tr) : tr[k] = [fn |-> "loadInsertMap", html |-> "insert-map"]

\* A handler of the search and filter buttons holds the .results-container
\* it found when it started; once #content-area is rewritten that element
\* is no longer in the document.
Detach(F) ==
    {IF f.fn \in {"searchEntities", "filterEntitiesByLetter"}
     THEN [f EXCEPT !.detached = TRUE] ELSE f : f \in F}

\* A reload of the tab: a new document, and no answer reaches the old one.
PageReset ==
    /\ fetches' = {}
    /\ detailsContent' = NoDetails
    /\ editForm' = NullStr
    /\ editEntities' = <<>>
    /\ results' = Absent
    /\ resultsFrom' = NoQuery
    /\ paginationButtons' = <<>>
    /\ searchInput' = <<>>
    /\ tempEntitiesList' = NoList
    /\ insertSub' = Idle
    /\ formRequests' = {}
    /\ alertText' = ""
    /\ answer' = NoAnswer
    /\ report' = NoReport

\* What the renderers that a router handler ran do to the page: every one
\* of them is entered from loadCurrentPage(), which rewrites #content-area.
PageEffects ==
    IF trace' = <<>>
    THEN UNCHANGED <<fetches, detailsContent, editForm, editEntities, results, resultsFrom, paginationButtons,
                     searchInput, tempEntitiesList, insertSub, formRequests>>
         /\ alertText' = ""
         /\ answer' = NoAnswer
         /\ report' = NoReport
    ELSE /\ fetches' = Detach(fetches) \cup Dispatched(trace', selectedMapId')
         /\ detailsContent' = IF content' = "map-details" THEN DetailsLoading ELSE NoDetails
         /\ editForm' = NullStr
         /\ editEntities' = <<>>
         /\ results' = Absent
         /\ resultsFrom' = NoQuery
         /\ paginationButtons' = <<>>
         /\ searchInput' = <<>>
         /\ tempEntitiesList' = IF InsertRendered(trace') THEN <<>> ELSE tempEntitiesList
         /\ insertSub' = IF InsertRendered(trace') /\ insertSub.phase = "entities" /\ insertSub.live
                         THEN [insertSub EXCEPT !.live = FALSE, !.arr = tempEntitiesList]
                         ELSE insertSub
         /\ UNCHANGED formRequests
         /\ alertText' = ""
         /\ answer' = NoAnswer
         /\ report' = NoReport

\* The router and session specifications above do not follow the page.
NoPage == UNCHANGED pageVars

---------------------------------------------------------------------------
(* Actions: one per event handler *)

Bounded(S) == Len(S.pageHistory) <= MaxHistory

Apply(S) ==
    /\ currentUser' = S.currentUser
    /\ currentPage' = S.currentPage
    /\ pageHistory' = S.pageHistory
    /\ selectedMapId' = S.selectedMapId
    /\ selectedEntityInfo' = S.selectedEntityInfo
    /\ bhist' = S.bhist
    /\ bidx' = S.bidx
    /\ title' = S.title
    /\ content' = S.content
    /\ adminStatus' = S.adminStatus
    /\ trace' = S.trace

\* The handler that ran, its page argument, its boolean argument or outcome,
\* and the length of pageHistory when it started.
Did(op, page, flag) == last' = [op |-> op, page |-> page, flag |-> flag, len |-> Len(pageHistory)]

\* init(): the awaited session check answers with r, then the listeners are
\* installed and the current URL is routed.
InitApp(r) ==
    /\ ~started
    /\ LET S == loadInitialRoute([App EXCEPT !.currentUser = checkSession(r)])
       IN Bounded(S) /\ Apply(S)
    /\ started' = TRUE
    /\ Did("init", "", FALSE)
    /\ UNCHANGED <<loginModal, loginError, sessionPending, loginPending, logoutPending>>

NavigateTo(page, addToHistory) ==
    /\ started
    /\ LET S == navigateTo(App, page, addToHistory)
       IN Bounded(S) /\ Apply(S)
    /\ Did("navigateTo", page, addToHistory)
    /\ UNCHANGED <<started, loginModal, loginError, sessionPending, loginPending, logoutPending>>

GoBack ==
    /\ started
    /\ LET S == goBack(App)
       IN Bounded(S) /\ Apply(S)
    /\ Did("goBack", "", FALSE)
    /\ UNCHANGED <<started, loginModal, loginError, sessionPending, loginPending, logoutPending>>

ShowMapDetails(mapId) ==
    /\ started
    /\ LET S == showMapDetails(App, mapId)
       IN Bounded(S) /\ Apply(S)
    /\ Did("showMapDetails", "map-details", TRUE)
    /\ UNCHANGED <<started, loginModal, loginError, sessionPending, loginPending, logoutPending>>

ShowEntityDetails(entityName, beismanNumber) ==
    /\ started
    /\ LET S == showEntityDetails(App, entityName, beismanNumber)
       IN Bounded(S) /\ Apply(S)
    /\ Did("showEntityDetails", "entity-details", TRUE)
    /\ UNCHANGED <<started, loginModal, loginError, sessionPending, loginPending, logoutPending>>

\* The user moves to another entry of the browser history (Back / Forward).
Popstate(j) ==
    /\ started
    /\ j \in 1..Len(bhist)
    /\ j # bidx
    /\ LET S == popstate(App, j)
       IN Bounded(S) /\ Apply(S)
    /\ Did("popstate", "", FALSE)
    /\ UNCHANGED <<started, loginModal, loginError, sessionPending, loginPending, logoutPending>>

\* The 5-minute timer fires: checkSession() sends its request.
CheckSessionStart ==
    /\ started
    /\ sessionPending < MaxPending
    /\ sessionPending' = sessionPending + 1
    /\ trace' = <<>>
    /\ Did("checkSessionStart", "", FALSE)
    /\ UNCHANGED <<started, currentUser, currentPage, pageHistory, selectedMapId, selectedEntityInfo,
                   bhist, bidx, title, content, adminStatus, loginModal, loginError,
                   loginPending, logoutPending>>

\* A timer-driven checkSession() receives its answer r.
CheckSessionDone(r) ==
    /\ started
    /\ sessionPending > 0
    /\ sessionPending' = sessionPending - 1
    /\ currentUser' = checkSession(r)
    /\ trace' = <<>>
    /\ Did("checkSession", "", FALSE)
    /\ UNCHANGED <<started, currentPage, pageHistory, selectedMapId, selectedEntityInfo,
                   bhist, bidx, title, content, adminStatus, loginModal, loginError,
                   loginPending, logoutPending>>

\* Click on #admin-link without a user: showLoginModal().
ShowLoginModal ==
    /\ started
    /\ currentUser = Null
    /\ ~loginModal
    /\ loginModal' = TRUE
    /\ trace' = <<>>
    /\ Did("showLoginModal", "", FALSE)
    /\ UNCHANGED <<started, currentUser, currentPage, pageHistory, selectedMapId, selectedEntityInfo,
                   bhist, bidx, title, content, adminStatus, loginError,
                   sessionPending, loginPending, logoutPending>>

\* Escape key or backdrop click: closeLoginModal().
CloseLoginModal ==
    /\ started
    /\ loginModal
    /\ loginModal' = FALSE
    /\ loginError' = ""
    /\ trace' = <<>>
    /\ Did("closeLoginModal", "", FALSE)
    /\ UNCHANGED <<started, currentUser, currentPage, pageHistory, selectedMapId, selectedEntityInfo,
                   bhist, bidx, title, content, adminStatus,
                   sessionPending, loginPending, logoutPending>>

\* Submit of #login-form: handleLogin() up to its fetch.  filled says
\* whether both trimmed fields are non-empty.
HandleLogin(filled) ==
    /\ started
    /\ loginModal
    /\ loginPending = 0
    /\ IF filled
       THEN loginPending' = 1 /\ UNCHANGED loginError
       ELSE loginError' = "Please enter username and password" /\ UNCHANGED loginPending
    /\ trace' = <<>>
    /\ Did("handleLogin", "", filled)
    /\ UNCHANGED <<started, currentUser, currentPage, pageHistory, selectedMapId, selectedEntityInfo,
                   bhist, bidx, title, content, adminStatus, loginModal,
                   sessionPending, logoutPending>>

\* handleLogin() resumes with the answer r of POST /api/auth/login.
LoginDone(r) ==
    /\ started
    /\ loginPending > 0
    /\ loginPending' = 0
    /\ IF LoginSucceeded(r)
       THEN /\ LET S == navigateTo([App EXCEPT !.currentUser = LoginUser(r)], "admin-panel", TRUE)
               IN Bounded(S) /\ Apply(S)
            /\ loginModal' = FALSE
            /\ loginError' = ""
       ELSE /\ loginError' = LoginErrorText(r)
            /\ trace' = <<>>
            /\ UNCHANGED <<currentUser, currentPage, pageHistory, selectedMapId, selectedEntityInfo,
                           bhist, bidx, title, content, adminStatus, loginModal>>
    /\ Did("loginDone", "", LoginSucceeded(r))
    /\ UNCHANGED <<started, sessionPending, logoutPending>>

\* Click on #admin-link with a user: logout() sends its request.
LogoutStart ==
    /\ started
    /\ currentUser # Null
    /\ logoutPending < MaxPending
    /\ logoutPending' = logoutPending + 1
    /\ trace' = <<>>
    /\ Did("logoutStart", "", FALSE)
    /\ UNCHANGED <<started, currentUser, currentPage, pageHistory, selectedMapId, selectedEntityInfo,
                   bhist, bidx, title, content, adminStatus, loginModal, loginError,
                   sessionPending, loginPending>>

\* logout() resumes with the answer r of POST /api/auth/logout.
LogoutDone(r) ==
    /\ started
    /\ logoutPending > 0
    /\ logoutPending' = logoutPending - 1
    /\ IF LogoutSucceeded(r)
       THEN LET S == navigateTo([App EXCEPT !.currentUser = Null, !.adminStatus = FALSE], "home", TRUE)
            IN Bounded(S) /\ Apply(S)
       ELSE /\ trace' = <<>>
            /\ UNCHANGED <<currentUser, currentPage, pageHistory, selectedMapId, selectedEntityInfo,
                           bhist, bidx, title, content, adminStatus>>
    /\ Did("logoutDone", "", LogoutSucceeded(r))
    /\ UNCHANGED <<started, loginModal, loginError, sessionPending, loginPending>>

\* The user reloads the tab: a new document and a new BeismanMapApp on the
\* current URL (the constructor's assignments); the browser history and its
\* state objects survive, answers to the old document's requests are lost.
Reload ==
    /\ started
    /\ started' = FALSE
    /\ currentUser' = Null
    /\ currentPage' = "home"
    /\ pageHistory' = <<"home">>
    /\ selectedMapId' = NullStr
    /\ selectedEntityInfo' = Undef
    /\ title' = ""
    /\ content' = ""
    /\ adminStatus' = FALSE
    /\ loginModal' = FALSE
    /\ loginError' = ""
    /\ trace' = <<>>
    /\ sessionPending' = 0
    /\ loginPending' = 0
    /\ logoutPending' = 0
    /\ Did("reload", "", FALSE)
    /\ UNCHANGED <<bhist, bidx>>
    /\ PageReset

\* The state the constructor leaves, on the document the server sent for
\* the URL the tab was opened on.
Init ==
    /\ started = FALSE
    /\ currentUser = Null
    /\ currentPage = "home"
    /\ pageHistory = <<"home">>
    /\ selectedMapId = NullStr
    /\ selectedEntityInfo = Undef
    /\ title = ""
    /\ content = ""
    /\ adminStatus = FALSE
    /\ loginModal = FALSE
    /\ loginError = ""
    /\ trace = <<>>
    /\ sessionPending = 0
    /\ loginPending = 0
    /\ logoutPending = 0
    /\ last = [op |-> "constructor", page |-> "", flag |-> FALSE, len |-> 0]
    /\ \E p \in InitialPaths : bhist = <<[state |-> Null, path |-> p]>>
    /\ bidx = 1
    /\ PageInit

\* Router: link clicks, Back links, browser Back / Forward.
NextNav ==
    \/ \E r \in SessionResponses : InitApp(r) /\ NoPage
    \/ \E page \in GatePages : NavigateTo(page, TRUE) /\ NoPage
    \/ GoBack /\ NoPage
    \/ \E mapId \in MapIds : ShowMapDetails(mapId) /\ NoPage
    \/ \E j \in 1..MaxBrowser : Popstate(j) /\ NoPage

SpecNav == Init /\ [][NextNav]_vars

\* Router over every page name.
NextTitle ==
    \/ \E r \in SessionResponses : InitApp(r) /\ NoPage
    \/ \E page \in NavPages : NavigateTo(page, TRUE) /\ NoPage
    \/ GoBack /\ NoPage

SpecTitle == Init /\ [][NextTitle]_vars

\* Session client: timer, login modal, login and logout requests, with the
\* navigation that fills pageHistory.
NextAuth ==
    \/ \E r \in SessionResponses : InitApp(r) /\ NoPage
    \/ \E page \in {"browse-maps", "insert-map"} : NavigateTo(page, TRUE) /\ NoPage
    \/ GoBack /\ NoPage
    \/ CheckSessionStart /\ NoPage
    \/ \E r \in SessionResponses : CheckSessionDone(r) /\ NoPage
    \/ ShowLoginModal /\ NoPage
    \/ CloseLoginModal /\ NoPage
    \/ \E filled \in BOOLEAN : HandleLogin(filled) /\ NoPage
    \/ \E r \in LoginResponses : LoginDone(r) /\ NoPage
    \/ LogoutStart /\ NoPage
    \/ \E r \in LogoutResponses : LogoutDone(r) /\ NoPage

SpecAuth == Init /\ [][NextAuth]_vars

\* Deep links: a tab opened on "/", one Details click with any identifier
\* or any entity, a reload of the tab on the resulting URL.
InitRoute == Init /\ bhist[1].path = P("/")

RouteShowMapDetails(mapId) == Len(bhist) = 1 /\ ShowMapDetails(mapId)

RouteShowEntityDetails(entityName, beismanNumber) ==
    Len(bhist) = 1 /\ ShowEntityDetails(entityName, beismanNumber)

NextRoute ==
    \/ InitApp(SessionAnswer("ok", FALSE, NoUser)) /\ NoPage
    \/ \E mapId \in AllIds : RouteShowMapDetails(mapId) /\ NoPage
    \/ \E entityName \in AllIds, beismanNumber \in AllIds : RouteShowEntityDetails(entityName, beismanNumber) /\ NoPage
    \/ Reload

SpecRoute == InitRoute /\ [][NextRoute]_vars

---------------------------------------------------------------------------
(* Browse Entities: list, search and letter filter *)

\* EntityName values of the rows a list response carries; Undef is a row
\* without the field.
Names == {Undef, <<"M">>, <<"m", "a">>, <<"a">>}

RECURSIVE ListsUpTo(_)
ListsUpTo(n) ==
    IF n = 0 THEN {<<>>}
    ELSE LET shorter == ListsUpTo(n - 1)
         IN shorter \cup {Append(l, [EntityName |-> name]) : l \in shorter, name \in Names}

ListAnswer(k, data, cp, tp) ==
    [kind |-> k, data |-> data, current_page |-> cp, total_pages |-> tp]

\* Answers to GET /api/entities and GET /api/maps: a page of rows, a
\* status other than 2xx, or a rejected request.
\* The model takes every list on a single page and one row on every pair
\* of page numbers.
ListResponses ==
    {ListAnswer("ok", data, 1, 1) : data \in ListsUpTo(MaxList)}
    \cup {ListAnswer("ok", <<[EntityName |-> <<"M">>]>>, cp, tp) : cp \in 1..MaxPages, tp \in 0..MaxPages}
    \cup {ListAnswer("http_error", <<>>, 1, 1), ListAnswer("network_error", <<>>, 1, 1)}

\* The alphabet buttons pass their letter, the All button passes null.
Letters == {<<"M">>, NullStr}

\* What the user may type into #entities-search.
Terms == {<<>>, <<"x", " ">>}

Button(label, target) == [label |-> label, target |-> target, display |-> ""]

\* renderPaginationButtons() that offers Next on the last page as well.
renderPaginationButtons_pastEnd(page, totalPages) ==
    IF totalPages <= 1 THEN <<>>
    ELSE (IF page > 1 THEN <<Button("Previous", page - 1)>> ELSE <<>>)
         \o <<Button("Next", page + 1)>>

renderPaginationButtons(page, totalPages) ==
    IF totalPages <= 1 THEN <<>>
    ELSE (IF page > 1 THEN <<Button("Previous", page - 1)>> ELSE <<>>)
         \o (IF page < totalPages THEN <<Button("Next", page + 1)>> ELSE <<>>)

\* button.style.display = ... on every .pagination-button
SetDisplay(buttons, hide) ==
    [k \in 1..Len(buttons) |-> [buttons[k] EXCEPT !.display = IF hide THEN "none" ELSE "inline-block"]]

\* entity.EntityName || ''
NameOf(entity) == IF Truthy(entity.EntityName) THEN entity.EntityName ELSE <<>>

\* The predicate of the filter that compares the letter as it was passed.
StartsWithLetter_caseSensitive(entity, letter) == startsWith(NameOf(entity), letter)

StartsWithLetter(entity, letter) == startsWith(toLowerCase(NameOf(entity)), toLowerCase(letter))

\* Array.prototype.filter with the predicate of filterEntitiesByLetter().
FilterByLetter(data, letter) == SelectSeq(data, LAMBDA entity : StartsWithLetter(entity, letter))

\* The list page is what #content-area holds.
BrowsePresent == content = "browse-entities"

RouterUnchanged ==
    UNCHANGED <<started, currentUser, currentPage, pageHistory, selectedMapId, selectedEntityInfo,
                bhist, bidx, title, adminStatus, loginModal, loginError,
                sessionPending, loginPending, logoutPending>>

\* loadBrowseEntities() resumes with the answer r of its list request and
\* writes the page, or the failure notice, into the container it was given.
LoadBrowseEntitiesDone(f, r) ==
    /\ f \in fetches
    /\ f.fn = "loadBrowseEntities"
    /\ fetches' = Detach(fetches \ {f})
    /\ IF r.kind = "ok"
       THEN /\ content' = "browse-entities"
            /\ results' = Shown(r.data)
            /\ paginationButtons' = renderPaginationButtons(r.current_page, r.total_pages)
       ELSE /\ content' = "browse-entities-error"
            /\ results' = Absent
            /\ paginationButtons' = <<>>
    /\ resultsFrom' = NoQuery
    /\ searchInput' = <<>>
    /\ detailsContent' = NoDetails
    /\ editForm' = NullStr
    /\ editEntities' = <<>>
    /\ alertText' = ""
    /\ answer' = r
    /\ report' = NoReport
    /\ trace' = <<>>
    /\ Did("loadBrowseEntitiesDone", "", r.kind = "ok")
    /\ RouterUnchanged
    /\ UNCHANGED <<tempEntitiesList, insertSub, formRequests>>

\* The user edits #entities-search.
TypeSearch(term) ==
    /\ BrowsePresent
    /\ searchInput # term
    /\ searchInput' = term
    /\ alertText' = ""
    /\ answer' = NoAnswer
    /\ report' = NoReport
    /\ trace' = <<>>
    /\ Did("typeSearch", "", FALSE)
    /\ RouterUnchanged
    /\ UNCHANGED <<content, fetches, detailsContent, editForm, editEntities, results, resultsFrom, paginationButtons,
                   tempEntitiesList, insertSub, formRequests>>

\* Click on Search: searchEntities() up to its fetch.
SearchEntities ==
    /\ BrowsePresent
    /\ results' = Loading
    /\ fetches' = fetches \cup {Fetch("searchEntities", NullStr, Trim(searchInput), NullStr)}
    /\ alertText' = ""
    /\ answer' = NoAnswer
    /\ report' = NoReport
    /\ trace' = <<>>
    /\ Did("searchEntities", "", Trim(searchInput) # <<>>)
    /\ RouterUnchanged
    /\ UNCHANGED <<content, detailsContent, editForm, editEntities, resultsFrom, paginationButtons, searchInput,
                   tempEntitiesList, insertSub, formRequests>>

\* Click on a letter or on All: filterEntitiesByLetter(letter) up to its fetch.
FilterEntitiesByLetter(letter) ==
    /\ BrowsePresent
    /\ results' = Loading
    /\ fetches' = fetches \cup {Fetch("filterEntitiesByLetter", NullStr, Trim(searchInput), letter)}
    /\ alertText' = ""
    /\ answer' = NoAnswer
    /\ report' = NoReport
    /\ trace' = <<>>
    /\ Did("filterEntitiesByLetter", "", Truthy(letter))
    /\ RouterUnchanged
    /\ UNCHANGED <<content, detailsContent, editForm, editEntities, resultsFrom, paginationButtons, searchInput,
                   tempEntitiesList, insertSub, formRequests>>

\* searchEntities() or filterEntitiesByLetter() resumes with the answer r.
\* rows is what it renders and hide whether it hides the pagination buttons.
\* The rows go to the container found before the fetch; the pagination
\* buttons, and the container of the failure notice, are looked up anew.
QueryDone(f, r, rows, hide) ==
    /\ f \in fetches
    /\ fetches' = fetches \ {f}
    /\ IF r.kind = "ok"
       THEN /\ IF f.detached
               THEN UNCHANGED <<results, resultsFrom>>
               ELSE results' = Shown(rows) /\ resultsFrom' = [term |-> f.term, letter |-> f.letter]
            /\ paginationButtons' = SetDisplay(paginationButtons, hide)
       ELSE /\ IF BrowsePresent
               THEN results' = Failed /\ resultsFrom' = NoQuery
               ELSE UNCHANGED <<results, resultsFrom>>
            /\ UNCHANGED paginationButtons
    /\ alertText' = ""
    /\ answer' = r
    /\ report' = NoReport
    /\ trace' = <<>>
    /\ RouterUnchanged
    /\ UNCHANGED <<content, detailsContent, editForm, editEntities, searchInput, tempEntitiesList, insertSub, formRequests>>

SearchEntitiesDone(f, r) ==
    /\ f.fn = "searchEntities"
    /\ QueryDone(f, r, r.data, f.term # <<>>)
    /\ Did("searchEntitiesDone", "", r.kind = "ok" /\ ~f.detached)

FilterEntitiesDone(f, r) ==
    /\ f.fn = "filterEntitiesByLetter"
    /\ QueryDone(f, r, IF Truthy(f.letter) THEN FilterByLetter(r.data, f.letter) ELSE r.data,
                 Truthy(f.letter))
    /\ Did("filterEntitiesDone", "", r.kind = "ok" /\ ~f.detached)

\* Click on Reset: resetEntitiesSearch() clears the input and re-renders.
ResetEntitiesSearch ==
    /\ BrowsePresent
    /\ LET S == loadCurrentPage(App)
       IN Bounded(S) /\ Apply(S)
    /\ Did("resetEntitiesSearch", "", FALSE)
    /\ UNCHANGED <<started, loginModal, loginError, sessionPending, loginPending, logoutPending>>
    /\ PageEffects

\* The requests of the page that the model lets be in flight together.
FetchesBounded == Cardinality(fetches') <= MaxFetches

\* A visitor on the Browse Entities page.
NextBrowse ==
    \/ InitApp(SessionAnswer("ok", FALSE, NoUser)) /\ PageEffects
    \/ NavigateTo("browse-entities", TRUE) /\ PageEffects /\ FetchesBounded
    \/ \E f \in fetches, r \in ListResponses : LoadBrowseEntitiesDone(f, r)
    \/ \E term \in Terms : TypeSearch(term)
    \/ SearchEntities /\ FetchesBounded
    \/ \E letter \in Letters : FilterEntitiesByLetter(letter) /\ FetchesBounded
    \/ \E f \in fetches, r \in ListResponses : SearchEntitiesDone(f, r)
    \/ \E f \in fetches, r \in ListResponses : FilterEntitiesDone(f, r)
    \/ ResetEntitiesSearch /\ FetchesBounded

\* The tab was opened on "/".
InitHome == Init /\ bhist[1].path = P("/")

SpecBrowse == InitHome /\ [][NextBrowse]_vars

---------------------------------------------------------------------------
(* Insert Map: the temporary entity list and the submission *)

AtLimit == [k \in 1..NameLimit |-> "A"]
OverLimit == [k \in 1..(NameLimit + 1) |-> "A"]

\* What the user may have typed into #new-entity-name.
EntityInputs == {<<" ">>, <<"A">>, <<" ", "A">>, AtLimit, OverLimit}

\* What the user may have typed into the three fields of #insert-map-form.
FieldInputs == {<<" ">>, <<"7">>}

\* Answers to the POST requests of the submission: the parsed body, or a
\* rejected request or unparsable body.
PostResponses ==
    {[kind |-> "ok", success |-> TRUE], [kind |-> "ok", success |-> FALSE],
     [kind |-> "network_error", success |-> FALSE]}

PostSucceeded(r) == r.kind = "ok" /\ r.success

MapPost == [method |-> "POST", url |-> "/api/maps", name |-> <<>>, pos |-> 0]

AssociationPost(name, pos) ==
    [method |-> "POST", url |-> "/api/entities/map/add", name |-> name, pos |-> pos]

\* Array.prototype.includes
Includes(list, name) == \E k \in 1..Len(list) : list[k] = name

\* Array.prototype.indexOf, 1-based; 0 when absent
IndexOf(list, name) ==
    IF Includes(list, name) THEN CHOOSE k \in 1..Len(list) : list[k] = name /\ \A j \in 1..(k - 1) : list[j] # name
    ELSE 0

\* Array.prototype.splice(index, 1)
Splice(list, k) == SubSeq(list, 1, k - 1) \o SubSeq(list, k + 1, Len(list))

\* The form of the page is what #content-area holds.
InsertPresent == content = "insert-map"

\* The checks of addTempEntity() without the search for a duplicate.
Rejection_noDuplicateCheck(list, entityName) ==
    IF entityName = <<>> THEN "Please enter an entity name."
    ELSE IF Len(entityName) > NameLimit THEN "Entity name is too long. Please keep it under 255 characters."
    ELSE ""

\* The checks of addTempEntity(), in the order the code makes them.
Rejection(list, entityName) ==
    IF entityName = <<>> THEN "Please enter an entity name."
    ELSE IF Len(entityName) > NameLimit THEN "Entity name is too long. Please keep it under 255 characters."
    ELSE IF Includes(list, entityName) THEN "This entity is already in the list."
    ELSE ""

\* Click on Add Entity with value in #new-entity-name.
AddTempEntity(value) ==
    /\ InsertPresent
    /\ LET entityName == Trim(value)
           why == Rejection(tempEntitiesList, entityName)
       IN /\ alertText' = why
          /\ tempEntitiesList' = IF why = "" THEN Append(tempEntitiesList, entityName) ELSE tempEntitiesList
          /\ Did("addTempEntity", "", why = "")
    /\ Len(tempEntitiesList') <= MaxTemp
    /\ answer' = NoAnswer
    /\ report' = NoReport
    /\ trace' = <<>>
    /\ RouterUnchanged
    /\ UNCHANGED <<content, fetches, detailsContent, editForm, editEntities, results, resultsFrom, paginationButtons,
                   searchInput, insertSub, formRequests>>

\* Click on the Remove button of an entry of the displayed list.
RemoveTempEntity(entityName) ==
    /\ InsertPresent
    /\ Includes(tempEntitiesList, entityName)
    /\ LET index == IndexOf(tempEntitiesList, entityName)
       IN tempEntitiesList' = IF index > 0 THEN Splice(tempEntitiesList, index) ELSE tempEntitiesList
    /\ alertText' = ""
    /\ answer' = NoAnswer
    /\ report' = NoReport
    /\ trace' = <<>>
    /\ Did("removeTempEntity", "", TRUE)
    /\ RouterUnchanged
    /\ UNCHANGED <<content, fetches, detailsContent, editForm, editEntities, results, resultsFrom, paginationButtons,
                   searchInput, insertSub, formRequests>>

InsertFrame ==
    /\ answer' = NoAnswer
    /\ trace' = <<>>
    /\ RouterUnchanged
    /\ UNCHANGED <<content, fetches, detailsContent, editForm, editEntities, results, resultsFrom, paginationButtons,
                   searchInput, formRequests>>

\* Submit of #insert-map-form: handleInsertMapWithEntities() up to its
\* first fetch.  The submit button stays disabled until the call ends.
HandleInsertMapWithEntities(traceNumber, drawer, description) ==
    /\ InsertPresent
    /\ insertSub.phase = "idle"
    /\ IF Trim(traceNumber) = <<>> \/ Trim(drawer) = <<>> \/ Trim(description) = <<>>
       THEN /\ alertText' = "Please fill in all required map fields."
            /\ UNCHANGED insertSub
            /\ Did("handleInsertMapWithEntities", "", FALSE)
       ELSE IF currentUser = Null
       THEN /\ alertText' = "Error inserting map"
            /\ UNCHANGED insertSub
            /\ Did("handleInsertMapWithEntities", "", FALSE)
       ELSE /\ alertText' = ""
            /\ insertSub' = [Idle EXCEPT !.phase = "map", !.number = Trim(traceNumber),
                                         !.queued = tempEntitiesList, !.sent = <<MapPost>>]
            /\ Did("handleInsertMapWithEntities", "", TRUE)
    /\ UNCHANGED tempEntitiesList
    /\ report' = NoReport
    /\ InsertFrame

\* The end of the try block: the report, then the reset of the form and of
\* the list; without the form the reset throws and the catch block reports.
Finish(sub) ==
    /\ insertSub' = Idle
    /\ report' = [map |-> "inserted", successCount |-> sub.successCount,
                  failedEntities |-> sub.failedEntities]
    /\ IF InsertPresent
       THEN alertText' = "Map inserted successfully!" /\ tempEntitiesList' = <<>>
       ELSE alertText' = "Error inserting map" /\ UNCHANGED tempEntitiesList

\* The call resumes with the answer r of POST /api/maps and proceeds although
\* the map was not inserted.
MapPostDone_ignoresFailure(r) ==
    /\ insertSub.phase = "map"
    /\ LET sub == [insertSub EXCEPT !.mapOk = PostSucceeded(r)]
       IN IF Len(tempEntitiesList) > 0
          THEN /\ insertSub' = [sub EXCEPT !.phase = "entities", !.i = 1, !.name = tempEntitiesList[1],
                                           !.sent = Append(@, AssociationPost(tempEntitiesList[1], 1))]
               /\ report' = NoReport
               /\ alertText' = ""
               /\ UNCHANGED tempEntitiesList
          ELSE Finish(sub)
    /\ Did("mapPostDone", "", PostSucceeded(r))
    /\ InsertFrame

\* The call resumes with the answer r of POST /api/maps.
MapPostDone(r) ==
    /\ insertSub.phase = "map"
    /\ LET sub == [insertSub EXCEPT !.mapOk = PostSucceeded(r)]
       IN IF ~PostSucceeded(r)
          THEN /\ insertSub' = Idle
               /\ report' = [NoReport EXCEPT !.map = "error"]
               /\ alertText' = "Error inserting map"
               /\ UNCHANGED tempEntitiesList
          ELSE IF Len(tempEntitiesList) > 0
          THEN /\ insertSub' = [sub EXCEPT !.phase = "entities", !.i = 1, !.name = tempEntitiesList[1],
                                           !.sent = Append(@, AssociationPost(tempEntitiesList[1], 1))]
               /\ report' = NoReport
               /\ alertText' = ""
               /\ UNCHANGED tempEntitiesList
          ELSE Finish(sub)
    /\ Did("mapPostDone", "", PostSucceeded(r))
    /\ InsertFrame

\* The array that for...of iterates: this.tempEntitiesList as it is now, or
\* the array that loadInsertMap() has since replaced.
Iterated == IF insertSub.live THEN tempEntitiesList ELSE insertSub.arr

\* The call resumes with the answer r of the association POST in flight;
\* the iterator then yields the element at the next index, if there is one.
EntityPostDone(r) ==
    /\ insertSub.phase = "entities"
    /\ LET sub == IF PostSucceeded(r)
                  THEN [insertSub EXCEPT !.successCount = @ + 1, !.answers = Append(@, TRUE)]
                  ELSE [insertSub EXCEPT !.failedEntities = Append(@, insertSub.name),
                                         !.answers = Append(@, FALSE)]
       IN IF sub.i < Len(Iterated)
          THEN /\ insertSub' = [sub EXCEPT !.i = @ + 1, !.name = Iterated[sub.i + 1],
                                           !.sent = Append(@, AssociationPost(Iterated[sub.i + 1], sub.i + 1))]
               /\ report' = NoReport
               /\ alertText' = ""
               /\ UNCHANGED tempEntitiesList
          ELSE Finish(sub)
    /\ Did("entityPostDone", "", PostSucceeded(r))
    /\ InsertFrame

\* An administrator on the Insert Map page.
NextInsert ==
    \/ InitApp(SessionAnswer("ok", TRUE, AdminUser)) /\ PageEffects
    \/ \E page \in {"insert-map", "admin-panel"} : NavigateTo(page, TRUE) /\ PageEffects
    \/ \E value \in EntityInputs : AddTempEntity(value)
    \/ \E entityName \in {tempEntitiesList[k] : k \in 1..Len(tempEntitiesList)} : RemoveTempEntity(entityName)
    \/ \E traceNumber \in FieldInputs, drawer \in FieldInputs, description \in FieldInputs :
          HandleInsertMapWithEntities(traceNumber, drawer, description)
    \/ \E r \in PostResponses : MapPostDone(r)
    \/ \E r \in PostResponses : EntityPostDone(r)

SpecInsert == InitHome /\ [][NextInsert]_vars

---------------------------------------------------------------------------
(* Browse Maps, Map Details and the edit form: fetches and form requests *)

\* How a GET ends: a 2xx answer, another status, or a rejected request.
FetchOutcomes == {"ok", "http_error", "network_error"}

\* Map numbers of the rows that Browse Maps lists.
FetchMapIds == {<<"4">>, <<"4", "4">>}

\* #entities-list after a failed request.
EntitiesFailed == [kind |-> "error", rows |-> <<>>]

\* An assignment to container.innerHTML of #content-area: every element of
\* the page that was there is gone.
Overwrite(html) ==
    /\ content' = html
    /\ detailsContent' = NoDetails
    /\ results' = Absent
    /\ resultsFrom' = NoQuery
    /\ paginationButtons' = <<>>
    /\ searchInput' = <<>>

\* A row of GET /api/entities?search=<id>: an entity and the map it belongs
\* to.  The search matches substrings, so a query for one map may also
\* return the rows of another.
EntityRow(name, number) == [EntityName |-> name, BeismanNumber |-> number]
EntityRows == {EntityRow(<<"a">>, n) : n \in FetchMapIds}
EntityLists == UNION {[1..n -> EntityRows] : n \in 0..MaxList}
EntityResponses ==
    {[kind |-> "ok", data |-> d] : d \in EntityLists}
        \cup {[kind |-> k, data |-> <<>>] : k \in FetchOutcomes \ {"ok"}}

\* entity.BeismanNumber == this.selectedMapId
\*     || entity.BeismanNumber === this.selectedMapId.toString()
\* for a row of strings; toString() of null throws.
MatchesMap(row, mapId) ==
    IF mapId = NullStr THEN "throws"
    ELSE IF row.BeismanNumber = mapId THEN "yes" ELSE "no"

\* The list that loadMapForEditing hands to renderEntitiesForEditing: the
\* rows of the answer that match this.selectedMapId, and no rows when the
\* request failed or the filter threw.
EditingEntities(r, mapId) ==
    IF r.kind # "ok" THEN <<>>
    ELSE IF \E k \in 1..Len(r.data) : MatchesMap(r.data[k], mapId) = "throws" THEN <<>>
    ELSE SelectSeq(r.data, LAMBDA row : MatchesMap(row, mapId) = "yes")

\* The continuation of the fetch f that ended with r: the answer is about
\* the map that f asked for; the fields it leaves alone.
FetchFrame(f, r) ==
    /\ alertText' = ""
    /\ answer' = ListAnswer(r, f.mapId, 0, 0)
    /\ report' = NoReport
    /\ trace' = <<>>
    /\ RouterUnchanged
    /\ UNCHANGED <<tempEntitiesList, insertSub, formRequests>>

\* loadBrowseMaps() resumes with the outcome r of its list request and
\* writes the page, or the failure notice, into the container it was given.
LoadBrowseMapsDone(f, r) ==
    /\ f \in fetches
    /\ f.fn = "loadBrowseMaps"
    /\ fetches' = Detach(fetches \ {f})
    /\ Overwrite(IF r = "ok" THEN "browse-maps" ELSE "browse-maps-error")
    /\ editForm' = NullStr
    /\ editEntities' = <<>>
    /\ Did("loadBrowseMapsDone", "browse-maps", r = "ok")
    /\ FetchFrame(f, r)

\* loadMapDetailsData(mapId) resumes with the outcome r: it looks up
\* #map-details-content and, if it is there, writes the map into it and
\* calls loadMapEntities(mapId).
LoadMapDetailsDataDone(f, r) ==
    /\ f \in fetches
    /\ f.fn = "loadMapDetailsData"
    /\ IF detailsContent.kind = "absent"
       THEN fetches' = fetches \ {f} /\ UNCHANGED detailsContent
       ELSE IF r = "ok"
       THEN /\ detailsContent' = Details(f.mapId)
            /\ fetches' = (fetches \ {f}) \cup {Fetch("loadMapEntities", f.mapId, <<>>, NullStr)}
       ELSE /\ detailsContent' = DetailsFailed
            /\ fetches' = fetches \ {f}
    /\ Did("loadMapDetailsDataDone", "map-details", r = "ok")
    /\ FetchFrame(f, r)
    /\ UNCHANGED <<content, editForm, editEntities, results, resultsFrom, paginationButtons, searchInput>>

\* loadMapEntities(mapId) resumes with the outcome r: it looks up
\* #entities-list and, if it is there, writes every row of the answer r
\* into it.
LoadMapEntitiesDone(f, r) ==
    /\ f \in fetches
    /\ f.fn = "loadMapEntities"
    /\ fetches' = fetches \ {f}
    /\ detailsContent' = IF detailsContent.kind = "map"
                         THEN [detailsContent EXCEPT
                                  !.entities = IF r.kind = "ok"
                                               THEN [kind |-> "list", rows |-> r.data]
                                               ELSE EntitiesFailed]
                         ELSE detailsContent
    /\ Did("loadMapEntitiesDone", "map-details", r.kind = "ok")
    /\ FetchFrame(f, r.kind)
    /\ UNCHANGED <<content, editForm, editEntities, results, resultsFrom, paginationButtons, searchInput>>

\* loadMapForEditing(container) resumes with the outcome r of GET
\* /api/maps/<id>: it requests the entities, or writes the failure notice.
LoadMapForEditingMap(f, r) ==
    /\ f \in fetches
    /\ f.fn = "loadMapForEditing"
    /\ r = "ok" => Truthy(f.mapId)
    /\ IF r = "ok"
       THEN /\ fetches' = (fetches \ {f}) \cup {Fetch("loadMapForEditing.entities", f.mapId, <<>>, NullStr)}
            /\ UNCHANGED <<content, detailsContent, editForm, editEntities, results, resultsFrom, paginationButtons,
                           searchInput>>
       ELSE /\ fetches' = Detach(fetches \ {f})
            /\ Overwrite("update-delete-error")
            /\ editForm' = NullStr
            /\ editEntities' = <<>>
    /\ Did("loadMapForEditingMap", "update-delete", r = "ok")
    /\ FetchFrame(f, r)

\* loadMapForEditing(container) resumes with the answer r of its entities
\* request, whose failure its inner try block absorbs, and writes the edit
\* form of the map it fetched, with the rows of r that match
\* this.selectedMapId, into the container.
LoadMapForEditingEntities(f, r) ==
    /\ f \in fetches
    /\ f.fn = "loadMapForEditing.entities"
    /\ fetches' = Detach(fetches \ {f})
    /\ Overwrite("update-delete-form")
    /\ editForm' = f.mapId
    /\ editEntities' = EditingEntities(r, selectedMapId)
    /\ Did("loadMapForEditingEntities", "update-delete", r.kind = "ok")
    /\ alertText' = ""
    /\ answer' = ListAnswer(r.kind, r.data, 0, 0)
    /\ report' = NoReport
    /\ trace' = <<>>
    /\ RouterUnchanged
    /\ UNCHANGED <<tempEntitiesList, insertSub, formRequests>>

\* #update-map-form is in the document.
EditPresent == content = "update-delete-form"

FormRequest(fn, mapId, name) == [fn |-> fn, mapId |-> mapId, name |-> name]

\* What a handler of the edit form leaves alone.
FormFrame ==
    /\ answer' = NoAnswer
    /\ report' = NoReport
    /\ trace' = <<>>
    /\ RouterUnchanged
    /\ UNCHANGED <<content, detailsContent, editForm, editEntities, results, resultsFrom, paginationButtons,
                   searchInput, tempEntitiesList, insertSub>>

\* handleUpdateMap() whose validation alerts and goes on to the request.
HandleUpdateMap_noReturn(drawer, description) ==
    /\ EditPresent
    /\ LET valid == Trim(drawer) # <<>> /\ Trim(description) # <<>>
       IN /\ alertText' = IF valid THEN "" ELSE "Please fill in both Drawer and Description fields."
          /\ formRequests' = formRequests \cup {FormRequest("handleUpdateMap", selectedMapId, <<>>)}
          /\ Did("handleUpdateMap", "", valid)
    /\ UNCHANGED fetches
    /\ FormFrame

\* Submit of #update-map-form: handleUpdateMap() up to its fetch.
HandleUpdateMap(drawer, description) ==
    /\ EditPresent
    /\ LET valid == Trim(drawer) # <<>> /\ Trim(description) # <<>>
       IN /\ alertText' = IF valid THEN "" ELSE "Please fill in both Drawer and Description fields."
          /\ formRequests' = IF valid
                             THEN formRequests \cup {FormRequest("handleUpdateMap", selectedMapId, <<>>)}
                             ELSE formRequests
          /\ Did("handleUpdateMap", "", valid)
    /\ UNCHANGED fetches
    /\ FormFrame

\* Click on Add Entity of the edit form: addEntityToMap() up to its fetch.
AddEntityToMap(value) ==
    /\ EditPresent
    /\ LET entityName == Trim(value)
       IN /\ alertText' = IF entityName # <<>> THEN "" ELSE "Please enter an entity name."
          /\ formRequests' = IF entityName # <<>>
                             THEN formRequests \cup {FormRequest("addEntityToMap", selectedMapId, entityName)}
                             ELSE formRequests
          /\ Did("addEntityToMap", "", entityName # <<>>)
    /\ UNCHANGED fetches
    /\ FormFrame

\* handleUpdateMap() or addEntityToMap() resumes with the answer r: on
\* success it alerts and calls loadMapForEditing() on #content-area, which
\* requests the map that is selected now.  addEntityToMap() first clears
\* #new-entity-name, and lands in its catch block if no form has one.
FormRequestDone(q, r) ==
    /\ q \in formRequests
    /\ formRequests' = formRequests \ {q}
    /\ IF ~PostSucceeded(r)
       THEN alertText' = "failed" /\ UNCHANGED fetches
       ELSE IF q.fn = "addEntityToMap" /\ ~EditPresent /\ ~InsertPresent
       THEN alertText' = "Network error while adding entity" /\ UNCHANGED fetches
       ELSE /\ alertText' = "successfully"
            /\ fetches' = fetches \cup {Fetch("loadMapForEditing", selectedMapId, <<>>, NullStr)}
    /\ Did("formRequestDone", "", PostSucceeded(r))
    /\ FormFrame

\* The forms of the application: the login modal, the Insert Map form and
\* the edit form, each with inputs that pass and inputs that fail validation.
\* The server refuses every new map and leaves the requests of Map Details
\* unanswered.
NextForms ==
    \/ \E r \in {SessionAnswer("ok", TRUE, AdminUser), SessionAnswer("ok", FALSE, NoUser)} :
          InitApp(r) /\ PageEffects
    \/ \E page \in {"insert-map", "update-delete"} : NavigateTo(page, TRUE) /\ PageEffects
    \/ ShowMapDetails(<<"4">>) /\ PageEffects
    \/ \E f \in fetches, r \in FetchOutcomes : LoadMapForEditingMap(f, r)
    \/ \E f \in fetches, r \in EntityResponses : LoadMapForEditingEntities(f, r)
    \/ ShowLoginModal /\ PageEffects
    \/ \E username \in FieldInputs, password \in FieldInputs :
          HandleLogin(Trim(username) # <<>> /\ Trim(password) # <<>>) /\ PageEffects
    \/ \E r \in LoginResponses : LoginDone(r) /\ PageEffects
    \/ \E value \in EntityInputs : AddTempEntity(value)
    \/ \E traceNumber \in FieldInputs, drawer \in FieldInputs, description \in FieldInputs :
          HandleInsertMapWithEntities(traceNumber, drawer, description)
    \/ \E r \in {p \in PostResponses : ~PostSucceeded(p)} : MapPostDone(r)
    \/ \E drawer \in FieldInputs, description \in FieldInputs : HandleUpdateMap(drawer, description)
    \/ \E value \in FieldInputs : AddEntityToMap(value)
    \/ \E q \in formRequests, r \in PostResponses : FormRequestDone(q, r)

SpecForms == InitHome /\ [][NextForms]_vars

\* The requests that the model lets be in flight together on these pages.
InFlightBounded == Cardinality(fetches') <= MaxInFlight

\* Link clicks and Back links of an administrator while the requests of
\* Browse Maps, Map Details and the edit form are in flight.  A row without
\* a map number passes the empty string.
NextFetch ==
    \/ InitApp(SessionAnswer("ok", TRUE, AdminUser)) /\ PageEffects
    \/ \E page \in {"browse-maps", "update-delete"} : NavigateTo(page, TRUE) /\ PageEffects /\ InFlightBounded
    \/ GoBack /\ PageEffects /\ InFlightBounded
    \/ \E mapId \in FetchMapIds \cup {<<>>} : ShowMapDetails(mapId) /\ PageEffects /\ InFlightBounded
    \/ \E f \in fetches, r \in FetchOutcomes : LoadBrowseMapsDone(f, r)
    \/ \E f \in fetches, r \in FetchOutcomes : LoadMapDetailsDataDone(f, r)
    \/ \E f \in fetches, r \in EntityResponses : LoadMapEntitiesDone(f, r)
    \/ \E f \in fetches, r \in FetchOutcomes : LoadMapForEditingMap(f, r)
    \/ \E f \in fetches, r \in EntityResponses : LoadMapForEditingEntities(f, r)

SpecFetch == InitHome /\ [][NextFetch]_vars

---------------------------------------------------------------------------
(* Properties *)

AdminRenderers == {"loadAdminPanel", "loadInsertMap", "loadUpdateDelete"}

AdminContent == {"admin-panel", "insert-map", "update-delete", "update-delete-guidance"}

\* The state object of the current browser-history entry.
HistoryState == bhist[bidx].state

\* C1: whenever the renderer of admin-panel, insert-map or update-delete
\* runs without an admin session, it writes nothing, no admin content is
\* written by the handler, and the handler ends on page 'home' showing the
\* home content.
C1_AdminGate ==
    ~IsAdmin(currentUser) =>
        \A i \in DOMAIN trace :
            trace[i].fn \in AdminRenderers =>
                /\ trace[i].html = ""
                /\ \A k \in DOMAIN trace : trace[k].html \notin AdminContent
                /\ currentPage = "home"
                /\ content = "home"

\* C1 witness: a popstate event restored an admin page without an admin
\* session and was redirected.
C1_Witness ==
    /\ last.op = "popstate"
    /\ ~IsAdmin(currentUser)
    /\ trace # <<>>
    /\ trace[1].fn \in AdminRenderers
    /\ currentPage = "home"

\* C2 as stated: after navigateTo(page) the heading is the table string of
\* page, or 'Beisman Map Menu' for a name outside the table.
C2_Original ==
    last.op = "navigateTo" =>
        title = IF last.page \in TitledPages THEN PageTitles(last.page) ELSE "Beisman Map Menu"

\* C2 amended: after navigateTo(page) the heading is the table string of
\* page ('Beisman Map Menu' outside the table), except that for an admin
\* page without an admin session the redirect leaves the heading of 'home'.
C2_Title ==
    last.op = "navigateTo" =>
        title = IF last.page \in AdminPages /\ ~IsAdmin(currentUser) THEN "Beisman Map Menu"
                ELSE IF last.page \in TitledPages THEN PageTitles(last.page)
                ELSE "Beisman Map Menu"

\* C2 witness: navigateTo('insert-map') without an admin session ended with
\* the heading of the home page.
C2_Witness ==
    /\ last.op = "navigateTo"
    /\ last.page = "insert-map"
    /\ ~IsAdmin(currentUser)
    /\ title = "Beisman Map Menu"

\* C3: goBack() called with an empty pageHistory ends on page 'home' with
\* pageHistory still empty.
C3_GoBackEmpty ==
    (last.op = "goBack" /\ last.len = 0) => (currentPage = "home" /\ pageHistory = <<>>)

\* C3 witness: goBack() ran on an empty pageHistory away from home.
C3_Witness ==
    /\ last.op = "goBack"
    /\ last.len = 0
    /\ currentPage = "home"
    /\ content = "home"
    /\ Len(bhist) = 2
    /\ bhist[1].state # Null
    /\ bhist[1].state.page = "browse-maps"

\* C4 as stated: navigateTo(p, addToHistory) appends the previous page to
\* pageHistory exactly when addToHistory holds and p differs from
\* currentPage, and otherwise leaves pageHistory as it was.
C4_Original ==
    [][\A p \in NavPages, a \in BOOLEAN :
          NavigateTo(p, a) =>
              pageHistory' = IF a /\ p # currentPage THEN Append(pageHistory, currentPage)
                             ELSE pageHistory]_vars

\* C5 as stated: after showing map id the browser path is '/map-details/<id>',
\* and a tab loaded on that path routes to map-details with that id selected.
C5_Original ==
    /\ last.op = "showMapDetails" =>
           bhist[bidx].path = [base |-> "/map-details", tail |-> <<"/">> \o selectedMapId]
    /\ (last.op = "init" /\ HistoryState # Null /\ HistoryState.page = "map-details") =>
           (currentPage = "map-details" /\ selectedMapId = HistoryState.selectedMapId)

\* C6 as stated: a tab loaded on the URL that showEntityDetails(name, num)
\* produced parses back exactly name and num, for every name and num that
\* produce that URL.
C6_Original ==
    (last.op = "init" /\ HistoryState # Null /\ HistoryState.page = "entity-details") =>
        \A name \in AllIds, num \in AllIds :
            HistoryState.selectedEntityInfo = name \o <<"|">> \o num =>
                /\ currentPage = "entity-details"
                /\ ParsedEntityInfo(selectedEntityInfo) = [entityName |-> name, beismanNumber |-> num]

\* C7 as stated: a popstate event with a state object sets currentPage,
\* selectedMapId and selectedEntityInfo from it and renders, pushing nothing
\* onto pageHistory and creating no browser-history entry.
C7_Original ==
    [][\A j \in 1..MaxBrowser :
          (Popstate(j) /\ bhist[j].state # Null) =>
              /\ currentPage' = bhist[j].state.page
              /\ selectedMapId' = bhist[j].state.selectedMapId
              /\ selectedEntityInfo' = bhist[j].state.selectedEntityInfo
              /\ trace' # <<>>
              /\ pageHistory' = pageHistory
              /\ bhist' = bhist]_vars

\* C7 amended: a popstate event with a state object sets selectedMapId and
\* selectedEntityInfo from it and renders; currentPage becomes the stored
\* page with pageHistory and the browser history untouched, except when the
\* stored page is an admin page and there is no admin session: then the
\* renderer redirects, currentPage becomes 'home', the stored page is pushed
\* onto pageHistory and a browser-history entry for "/" is created and made
\* current.
C7_Popstate ==
    [][\A j \in 1..MaxBrowser :
          (Popstate(j) /\ bhist[j].state # Null) =>
              /\ selectedMapId' = bhist[j].state.selectedMapId
              /\ selectedEntityInfo' = bhist[j].state.selectedEntityInfo
              /\ trace' # <<>>
              /\ IF bhist[j].state.page \in AdminPages /\ ~IsAdmin(currentUser)
                 THEN /\ currentPage' = "home"
                      /\ pageHistory' = Append(pageHistory, bhist[j].state.page)
                      /\ bhist'[bidx'] = [state |-> [page |-> "home",
                                                     selectedMapId |-> bhist[j].state.selectedMapId,
                                                     selectedEntityInfo |-> bhist[j].state.selectedEntityInfo],
                                          path |-> P("/")]
                 ELSE /\ currentPage' = bhist[j].state.page
                      /\ pageHistory' = pageHistory
                      /\ bhist' = bhist
                      /\ bidx' = j]_vars

\* C7 witness: a popstate event restored the map-details page and its map id
\* from the state object of the entry the browser moved to.
C7_Witness ==
    /\ last.op = "popstate"
    /\ HistoryState # Null
    /\ HistoryState.page = "map-details"
    /\ currentPage = "map-details"
    /\ selectedMapId = <<"4">>
    /\ HistoryState.selectedMapId = <<"4">>
    /\ Len(pageHistory) = last.len

\* The user record the session endpoint's answer describes.
SessionUser(r) ==
    [username |-> r.username, displayName |-> r.display_name,
     isAdmin |-> r.is_admin, sessionId |-> r.session_id]

\* C8: when a checkSession() call completes, currentUser holds the fields of
\* the answer if the answer is OK with is_authenticated true, and is null for
\* every other answer (non-OK status, network error, not authenticated).
C8_CheckSession ==
    [][\A r \in SessionResponses :
          (CheckSessionDone(r) \/ InitApp(r)) =>
              currentUser' = IF r.kind = "ok" /\ r.is_authenticated THEN SessionUser(r) ELSE Null]_vars

\* C8 witness: a timer-driven session check completed with an authenticated
\* answer and populated currentUser while the home page was shown.
C8_Witness ==
    /\ last.op = "checkSession"
    /\ currentUser = AdminUser
    /\ adminStatus = FALSE
    /\ content = "home"

\* C9 as stated: a login answer with success true populates currentUser and
\* leaves currentPage 'admin-panel'; any other answer leaves currentUser,
\* currentPage and pageHistory unchanged and shows an error message.
C9_Original ==
    [][\A r \in LoginResponses :
          LoginDone(r) =>
              IF r.kind = "ok" /\ r.success
              THEN /\ currentUser' = [username |-> r.user_info.username,
                                      displayName |-> r.user_info.display_name,
                                      isAdmin |-> r.user_info.is_admin,
                                      sessionId |-> r.session_id]
                   /\ currentPage' = "admin-panel"
              ELSE /\ UNCHANGED <<currentUser, currentPage, pageHistory>>
                   /\ loginError' # ""
                   /\ loginError' \in {r.message, "Login failed",
                                       "Network error during login. Please try again."}]_vars

\* C9 amended: a login answer with success true populates currentUser from
\* user_info and session_id and navigates to admin-panel, so that the handler
\* ends on 'admin-panel' when user_info.is_admin is true and, redirected by
\* the admin check, on 'home' when it is false; any other answer leaves
\* currentUser, currentPage and pageHistory unchanged and shows an error.
C9_Login ==
    [][\A r \in LoginResponses :
          LoginDone(r) =>
              IF r.kind = "ok" /\ r.success
              THEN /\ currentUser' = [username |-> r.user_info.username,
                                      displayName |-> r.user_info.display_name,
                                      isAdmin |-> r.user_info.is_admin,
                                      sessionId |-> r.session_id]
                   /\ currentPage' = IF r.user_info.is_admin THEN "admin-panel" ELSE "home"
              ELSE /\ UNCHANGED <<currentUser, currentPage, pageHistory>>
                   /\ loginError' # ""
                   /\ loginError' \in {r.message, "Login failed",
                                       "Network error during login. Please try again."}]_vars

\* C9 witness: a successful login of a user without admin rights ended on
\* the home page.
C9_Witness ==
    /\ last.op = "loginDone"
    /\ last.flag
    /\ currentUser = PlainUser
    /\ currentPage = "home"
    /\ ~loginModal

\* C10: a logout answer with success true clears currentUser and leaves
\* currentPage 'home'; an answer with success false or a failed request
\* leaves currentUser, currentPage and pageHistory unchanged.
C10_Logout ==
    [][\A r \in LogoutResponses :
          LogoutDone(r) =>
              IF r.kind = "ok" /\ r.success
              THEN currentUser' = Null /\ currentPage' = "home"
              ELSE UNCHANGED <<currentUser, currentPage, pageHistory>>]_vars

\* C10 witness: a logout succeeded away from home: no user, page 'home', the
\* page left pushed onto pageHistory.
C10_Witness ==
    /\ last.op = "logoutDone"
    /\ last.flag
    /\ currentUser = Null
    /\ currentPage = "home"
    /\ Len(pageHistory) = last.len + 1

---------------------------------------------------------------------------
(* Properties of the Browse Entities page *)

HasButton(buttons, label) == \E k \in 1..Len(buttons) : buttons[k].label = label

TargetOf(buttons, label) == buttons[CHOOSE k \in 1..Len(buttons) : buttons[k].label = label].target

\* C11: when loadBrowseEntities() has rendered a list answer whose page
\* numbers satisfy 1 <= current_page <= total_pages, a Previous button exists
\* exactly when total_pages > 1 and current_page > 1, a Next button exists
\* exactly when total_pages > 1 and current_page < total_pages, Previous
\* targets current_page - 1 and Next targets current_page + 1.
C11_Pagination ==
    (/\ last.op = "loadBrowseEntitiesDone"
     /\ last.flag
     /\ 1 <= answer.current_page
     /\ answer.current_page <= answer.total_pages)
    => /\ HasButton(paginationButtons, "Previous")
             <=> (answer.total_pages > 1 /\ answer.current_page > 1)
       /\ HasButton(paginationButtons, "Next")
             <=> (answer.total_pages > 1 /\ answer.current_page < answer.total_pages)
       /\ HasButton(paginationButtons, "Previous")
             => TargetOf(paginationButtons, "Previous") = answer.current_page - 1
       /\ HasButton(paginationButtons, "Next")
             => TargetOf(paginationButtons, "Next") = answer.current_page + 1
       /\ Len(paginationButtons) <= 2

\* C11 witness: a list answer for a middle page was rendered with both
\* controls, Previous before Next.
C11_Witness ==
    /\ last.op = "loadBrowseEntitiesDone"
    /\ Len(paginationButtons) = 2
    /\ paginationButtons[1] = Button("Previous", 1)
    /\ paginationButtons[2] = Button("Next", 3)

\* Two characters that are the same letter in either case.
SameLetter(a, b) ==
    \/ a = b
    \/ a \in DOMAIN LowerOf /\ LowerOf[a] = b
    \/ b \in DOMAIN LowerOf /\ LowerOf[b] = a

\* name begins with the letter L, whatever the case of either.
BeginsWith(name, L) ==
    /\ Len(name) >= Len(L)
    /\ \A k \in 1..Len(L) : SameLetter(name[k], L[k])

\* The rows of data whose EntityName begins with L, in the order of data; a
\* row without a name counts as having the empty name.
RowsBeginningWith(data, L) ==
    SelectSeq(data, LAMBDA e : e.EntityName # Undef /\ BeginsWith(e.EntityName, L))

\* C12: when filterEntitiesByLetter(L) has received its list and written
\* it into the results container of the page, the container shows exactly
\* the rows whose EntityName begins with L regardless of case, in their
\* original order, and the whole list unchanged when L is null.
C12_LetterFilter ==
    (last.op = "filterEntitiesDone" /\ last.flag)
    => results = Shown(IF resultsFrom.letter = NullStr THEN answer.data
                       ELSE RowsBeginningWith(answer.data, resultsFrom.letter))

\* C12 witness: the filter on "M" shows a row named in upper case and a row
\* named in lower case, in the order of the answer.
C12_Witness ==
    /\ last.op = "filterEntitiesDone"
    /\ resultsFrom.letter = <<"M">>
    /\ results = Shown(<<[EntityName |-> <<"M">>], [EntityName |-> <<"m", "a">>]>>)

\* C16 as claimed: whenever the rows on the page are the answer to a query
\* with a non-empty search term or a non-null letter, every pagination
\* button is hidden.
C16_Original ==
    (/\ content = "browse-entities"
     /\ results.kind = "list"
     /\ (resultsFrom.term # <<>> \/ Truthy(resultsFrom.letter)))
    => \A k \in 1..Len(paginationButtons) : paginationButtons[k].display = "none"

---------------------------------------------------------------------------
(* Properties of the Insert Map page *)

\* C13: tempEntitiesList never holds a name twice, an empty name or a name
\* longer than 255 characters, and an addTempEntity() call that rejects its
\* input raises an alert and leaves tempEntitiesList as it was.
C13_TempList ==
    /\ [](/\ \A k, l \in 1..Len(tempEntitiesList) : tempEntitiesList[k] = tempEntitiesList[l] => k = l
          /\ \A k \in 1..Len(tempEntitiesList) :
                tempEntitiesList[k] # <<>> /\ Len(tempEntitiesList[k]) <= NameLimit)
    /\ [][(last'.op = "addTempEntity" /\ ~last'.flag)
             => (tempEntitiesList' = tempEntitiesList /\ alertText' # "")]_vars

\* C13 witness: a second addTempEntity() of a name already in the list was
\* rejected with the duplicate alert and the list still has its one entry.
C13_Witness ==
    /\ last.op = "addTempEntity"
    /\ ~last.flag
    /\ alertText = "This entity is already in the list."
    /\ tempEntitiesList = <<AtLimit>>

\* The names of the association POSTs in posts whose answer in ans was not
\* a success, in the order the requests were sent.
FailedNames(posts, ans) ==
    LET pairs == [k \in 1..Len(posts) |-> [name |-> posts[k].name, ok |-> ans[k]]]
        bad == SelectSeq(pairs, LAMBDA pr : ~pr.ok)
    IN [k \in 1..Len(bad) |-> bad[k].name]

\* C14 as claimed: when a submission whose map POST succeeded ends, its
\* report says the map was inserted, its success and failure counts add up
\* to the number of entities that were queued when the form was submitted,
\* the names it lists are those of the association POSTs that failed, in
\* order, and every request it sent was a POST.
C14_Original ==
    [][(insertSub.phase # "idle" /\ insertSub'.phase = "idle" /\ last'.op \in {"mapPostDone", "entityPostDone"}
        /\ (insertSub.mapOk \/ (last'.op = "mapPostDone" /\ last'.flag)))
          => /\ report'.map = "inserted"
             /\ report'.successCount + Len(report'.failedEntities) = Len(insertSub.queued)
             /\ report'.failedEntities =
                   FailedNames(Tail(insertSub.sent),
                               IF insertSub.phase = "entities"
                               THEN Append(insertSub.answers, last'.flag) ELSE <<>>)
             /\ \A k \in 1..Len(insertSub.sent) : insertSub.sent[k].method = "POST"]_vars

\* C15: within a submission the first request is the map POST; association
\* POSTs exist only once the map POST has answered success = true; they are
\* sent at consecutive positions of the list, each after the answer to the
\* one before; and a failed map POST ends the submission with no
\* association POST sent and tempEntitiesList as it was.
C15_Sequence ==
    /\ [](LET sent == insertSub.sent
          IN /\ insertSub.phase # "idle" => (sent # <<>> /\ sent[1] = MapPost)
             /\ \A k \in 2..Len(sent) :
                   /\ insertSub.mapOk
                   /\ sent[k].url = "/api/entities/map/add"
                   /\ sent[k].pos = k - 1
             /\ insertSub.phase = "map" => (Len(sent) = 1 /\ ~insertSub.mapOk)
             /\ insertSub.phase = "entities" => Len(insertSub.answers) = Len(sent) - 2)
    /\ [][(last'.op = "mapPostDone" /\ ~last'.flag)
             => /\ insertSub' = Idle
                /\ Len(insertSub.sent) = 1
                /\ tempEntitiesList' = tempEntitiesList]_vars

\* C15 witness: the map POST succeeded, the first association POST was
\* answered with a failure and the second one is in flight.
C15_Witness ==
    /\ insertSub.phase = "entities"
    /\ insertSub.mapOk
    /\ Len(insertSub.sent) = 3
    /\ insertSub.answers = <<FALSE>>

---------------------------------------------------------------------------
(* Properties of the forms *)

\* The handlers that validate their fields before they send a request.
ValidatingHandlers ==
    {"handleLogin", "addTempEntity", "handleInsertMapWithEntities", "handleUpdateMap", "addEntityToMap"}

\* C17: when handleLogin, addTempEntity, handleInsertMapWithEntities,
\* handleUpdateMap or addEntityToMap finds its trimmed fields invalid, it
\* shows a message (the login error line or an alert), sends no request, and
\* leaves currentUser, currentPage, pageHistory and tempEntitiesList as
\* they were.
C17_Validation ==
    [][(last'.op \in ValidatingHandlers /\ ~last'.flag)
       => /\ loginError' # "" \/ alertText' # ""
          /\ UNCHANGED <<fetches, formRequests, insertSub, loginPending, sessionPending, logoutPending>>
          /\ UNCHANGED <<currentUser, currentPage, pageHistory, tempEntitiesList>>]_vars

\* The Insert Map form rejected a blank required field while the list
\* held an entity and pageHistory held the way back.
C17_Witness ==
    /\ last.op = "handleInsertMapWithEntities"
    /\ ~last.flag
    /\ alertText = "Please fill in all required map fields."
    /\ currentUser = AdminUser
    /\ Len(pageHistory) >= 2
    /\ tempEntitiesList # NoList
    /\ tempEntitiesList # <<>>

---------------------------------------------------------------------------
(* Properties of the fetches of Browse Maps, Map Details and the edit form *)

\* The continuations of loadBrowseMaps, loadMapDetailsData (with the
\* loadMapEntities it calls) and loadMapForEditing.
Continuations ==
    {"loadBrowseMapsDone", "loadMapDetailsDataDone", "loadMapEntitiesDone",
     "loadMapForEditingMap", "loadMapForEditingEntities"}

\* C18 as stated: a fetch of loadBrowseMaps, loadMapDetailsData or
\* loadMapForEditing that completes when its page is no longer the current
\* page, or its map no longer the selected map, changes nothing of what is
\* displayed and neither currentPage nor selectedMapId.
C18_Original ==
    [][(/\ last'.op \in Continuations
        /\ \/ last'.page # currentPage
           \/ /\ last'.page # "browse-maps"
              /\ selectedMapId # (IF last'.op = "loadMapForEditingEntities" THEN editForm' ELSE answer'.data))
       => UNCHANGED <<content, detailsContent, editForm, editEntities, currentPage, selectedMapId>>]_vars

\* C20 as stated: when loadUpdateDelete() has passed its admin check and no
\* map is selected, the page is the guidance message and no request for a
\* map to edit was sent for it; and the edit form is in the document only
\* while selectedMapId is set.
C20_Original ==
    /\ (/\ \E k \in 1..Len(trace) : trace[k].fn = "loadUpdateDelete" /\ trace[k].html # ""
        /\ ~Truthy(selectedMapId))
       => /\ content = "update-delete-guidance"
          /\ editForm = NullStr
          /\ ~\E f \in fetches : f.fn = "loadMapForEditing" /\ f.mapId = selectedMapId
    /\ editForm # NullStr => Truthy(selectedMapId)


---------------------------------------------------------------------------
(* Properties of the session check and page rendering *)

\* C19 as stated: no session check holds up the rendering of the page,
\* neither the one of startup nor one of a timer tick: when the answer to a
\* session request arrives, the application has rendered its page already.
C19_Original ==
    [][last'.op \in {"init", "checkSession"} => content # ""]_vars

---------------------------------------------------------------------------
(* Properties of the session cache *)

\* C25 as stated: the answer of a session check that was sent before a
\* login or a logout succeeded does not override that login or logout: when
\* it arrives right after the login or logout has completed, currentUser
\* stays as the login or logout left it.
C25_Original ==
    [][(/\ last.op \in {"loginDone", "logoutDone"}
        /\ last.flag
        /\ last'.op = "checkSession")
       => currentUser' = currentUser]_vars

\* C28 as stated: whenever the content of admin-panel, insert-map or
\* update-delete is what the page shows, currentUser is an administrator.
C28_Original ==
    (currentPage \in AdminPages /\ content \in AdminContent) => IsAdmin(currentUser)

---------------------------------------------------------------------------
(* Properties of back navigation *)

\* C27 as stated: a goBack() call that finds pageHistory non-empty leaves it
\* exactly one entry shorter, whatever the session.
C27_Original ==
    [][(last'.op = "goBack" /\ Len(pageHistory) > 0)
       => Len(pageHistory') = Len(pageHistory) - 1]_vars

---------------------------------------------------------------------------
(* Properties of a submission against changes of the list in flight *)

\* The elements of a list.
Elements(list) == {list[k] : k \in 1..Len(list)}

\* C26 as stated: when a submission whose map POST succeeded ends, the
\* entities it sent association POSTs for are those that tempEntitiesList
\* held when the form was submitted, and the entities queued after the
\* submit are still in tempEntitiesList.
C26_Original ==
    [][(/\ insertSub.phase # "idle"
        /\ insertSub'.phase = "idle"
        /\ last'.op \in {"mapPostDone", "entityPostDone"}
        /\ (insertSub.mapOk \/ (last'.op = "mapPostDone" /\ last'.flag)))
       => /\ {insertSub.sent[k].name : k \in 2..Len(insertSub.sent)} = Elements(insertSub.queued)
          /\ Elements(tempEntitiesList) \ Elements(insertSub.queued) \subseteq Elements(tempEntitiesList')]_vars

---------------------------------------------------------------------------
(* Properties of search combined with the letter filter *)

\* Every displayed row is a row of the answer and begins with letter L.
NarrowedBy(L) ==
    \A k \in 1..Len(results'.data) :
        /\ \E j \in 1..Len(answer'.data) : answer'.data[j] = results'.data[k]
        /\ BeginsWith(NameOf(results'.data[k]), L)

\* C22 as stated: with a letter L selected and a term T searched, in either
\* order, every displayed entity is in the answer for T and begins with L:
\* when the answer of a search for T is displayed over results that were
\* filtered by L, and when the answer of a click on L is displayed with T
\* in the search box.
C22_Original ==
    [][/\ (/\ last'.op = "searchEntitiesDone"
           /\ last'.flag
           /\ resultsFrom'.term # <<>>
           /\ Truthy(resultsFrom.letter))
          => NarrowedBy(resultsFrom.letter)
       /\ (/\ last'.op = "filterEntitiesDone"
           /\ last'.flag
           /\ resultsFrom'.term # <<>>
           /\ Truthy(resultsFrom'.letter))
          => NarrowedBy(resultsFrom'.letter)]_vars

---------------------------------------------------------------------------
(* Properties of the entity lists of Map Details and the edit form *)

\* C30 as stated: on the map-details page of map m, every entity shown
\* under 'Associated Entities' has BeismanNumber m, whatever rows the
\* substring search answered with.
C30_Original ==
    (/\ currentPage = "map-details"
     /\ detailsContent.kind = "map"
     /\ detailsContent.map = selectedMapId
     /\ detailsContent.entities.kind = "list")
    => \A k \in 1..Len(detailsContent.entities.rows) :
           detailsContent.entities.rows[k].BeismanNumber = detailsContent.map

\* C21 as stated: when loadMapForEditing writes the edit form of map m, the
\* form is rendered and its list holds exactly the rows of the answer whose
\* BeismanNumber is m, and no rows when the entity request failed.
C21_Original ==
    [][last'.op = "loadMapForEditingEntities"
       => /\ content' = "update-delete-form"
          /\ editEntities' =
                 IF last'.flag
                 THEN SelectSeq(answer'.data, LAMBDA row : row.BeismanNumber = editForm')
                 ELSE <<>>]_vars

---------------------------------------------------------------------------
(* Part E.  The links of the rendered pages *)

\* homeDestination / backDestination of the renderers.
HomeDestination(admin) == IF admin THEN "admin-panel" ELSE "home"

\* The pages that the navigateTo links of the document name, for the
\* document with content c rendered for an administrator or a visitor.
Links(c, admin) ==
    CASE c = "home" -> {"browse-maps", "browse-entities"}
      [] c = "admin-panel" -> {"browse-maps", "browse-entities", "insert-map"}
      [] c = "browse-maps" -> {HomeDestination(admin)}
      [] c = "map-details" ->
             {HomeDestination(admin), "browse-maps", "browse-entities"}
                 \cup (IF admin THEN {"insert-map", "update-delete", "delete-entities"} ELSE {})
      [] c = "insert-map" -> {"admin-panel"}
      [] c \in {"update-delete-guidance", "update-delete-error"} -> {"admin-panel"}
      [] c \in {"update-delete", "update-delete-form"} -> {"map-details"}
      [] OTHER -> {}

\* The documents with a goBack() link: the failure notices of the list
\* pages and the map page.
BackOffered(c) == c \in {"browse-maps-error", "browse-entities-error", "map-details"}

\* The user of this specification stays away from the entity pages and
\* the forms.
LinkPages == {"home", "admin-panel", "browse-maps", "delete-entities"}

\* A click on a navigateTo link of the document.
ClickLink(page) ==
    /\ page \in Links(content, IsAdmin(currentUser)) \cap LinkPages
    /\ NavigateTo(page, TRUE)
    /\ PageEffects
    /\ FetchesBounded

\* A click on a Back link of the document.
ClickBack ==
    /\ BackOffered(content)
    /\ GoBack
    /\ PageEffects
    /\ FetchesBounded

\* A click on the Details link of a row of the list of maps.
ClickDetails(mapId) ==
    /\ content = "browse-maps"
    /\ ShowMapDetails(mapId)
    /\ PageEffects
    /\ FetchesBounded

\* The answers of the entity search for a map that has no entities.
NoEntityResponses == {r \in EntityResponses : r.data = <<>>}

\* An administrator who follows the links of the documents and uses the
\* Back and Forward buttons of the browser, and waits for the requests of
\* a page to be answered before leaving it; the maps have no entities.
NextLinks ==
    \/ InitApp(SessionAnswer("ok", TRUE, AdminUser)) /\ PageEffects
    \/ \E page \in LinkPages : ClickLink(page)
    \/ ClickBack
    \/ \E mapId \in MapIds : ClickDetails(mapId)
    \/ \E j \in 1..MaxBrowser : Popstate(j) /\ PageEffects /\ FetchesBounded
    \/ \E f \in fetches, r \in FetchOutcomes : LoadBrowseMapsDone(f, r)
    \/ \E f \in fetches, r \in FetchOutcomes : LoadMapDetailsDataDone(f, r)
    \/ \E f \in fetches, r \in NoEntityResponses : LoadMapEntitiesDone(f, r)

SpecLinks == InitHome /\ [][NextLinks]_vars

---------------------------------------------------------------------------
(* Properties of the links *)

\* The logical pages of the router.
LogicalPages == {"home", "admin-panel", "browse-maps", "browse-entities", "map-details",
                 "entity-details", "insert-map", "update-delete"}

\* C23 as stated: whatever links of the rendered pages the user clicks,
\* with goBack and the browser's Back and Forward, currentPage is one of
\* the eight logical pages.
C23_Original == currentPage \in LogicalPages

\* C24 as stated: when the renderer of map-details has run, selectedMapId
\* is neither null nor undefined, and no request for /api/maps/<id> is sent
\* for a null or undefined id.
C24_Original ==
    /\ (\E k \in 1..Len(trace) : trace[k].fn = "loadMapDetails") => selectedMapId \notin {NullStr, Undef}
    /\ \A f \in fetches :
           f.fn \in {"loadMapDetailsData", "loadMapForEditing"} => f.mapId \notin {NullStr, Undef}

\* A new BeismanMapApp, as the constructor leaves it, in a tab on path with
\* the session of user.
FreshApp(user, path) ==
    [currentUser |-> user, currentPage |-> "home", pageHistory |-> <<"home">>,
     selectedMapId |-> NullStr, selectedEntityInfo |-> Undef,
     bhist |-> <<[state |-> Null, path |-> path]>>, bidx |-> 1, title |-> "", content |-> "",
     adminStatus |-> FALSE, trace |-> <<>>]

\* C29 as stated: once a navigation has finished, loadInitialRoute() on the
\* path of the browser gives the same currentPage, the same selectedMapId
\* on map-details and the same selectedEntityInfo on entity-details, and
\* the path of the browser is the path that the table of
\* updateBrowserHistory gives currentPage.
C29_Original ==
    (started /\ last.op \in {"init", "navigateTo", "goBack", "popstate", "showMapDetails"})
    => LET reloaded == loadInitialRoute(FreshApp(currentUser, Pathname(App)))
       IN /\ reloaded.currentPage = currentPage
          /\ currentPage = "map-details" => reloaded.selectedMapId = selectedMapId
          /\ currentPage = "entity-details" => reloaded.selectedEntityInfo = selectedEntityInfo
          /\ Pathname(App) = urlPaths(currentPage, selectedMapId,
                                      IF selectedEntityInfo = Undef THEN NullStr ELSE selectedEntityInfo)

====
